---- MODULE Spec2Model ----
(***************************************************************************)
(* Model of the clusterra-connect staged installer (install.py): the       *)
(* persisted DeploymentState, the StateManager that loads and saves it,    *)
(* and the Orchestrator whose stage bodies chain into each other.          *)
(*                                                                         *)
(* One installer process runs at a time.  pc is its position: "off" when   *)
(* no process runs, "main" after the StateManager was constructed, "run"   *)
(* at the top of Orchestrator.run, and one label per stage body.  The      *)
(* state file outlives the process; the in-memory state does not.          *)
(*                                                                         *)
(* The two companion scripts are processes of their own with their own     *)
(* variables: test_api_connection.py (position tpc) and uninstall.py       *)
(* (position upc).                                                         *)
(***************************************************************************)
EXTENDS Integers, Sequences, FiniteSets, TLC

VARIABLES
    file,       \* the state file .clusterra-state.json: [kind, doc]
    state,      \* StateManager.state of the running process (in memory)
    pc,         \* position of the installer process
    dry,        \* the --dry-run flag of the running process
    dry_run,    \* the dry_run argument of the stage body about to run
    runs,       \* installer processes started so far
    polls,      \* status polls of the current wait loop
    issued,     \* how often each counted command was issued in this deployment
    created,    \* a pcluster create-cluster of this deployment was accepted
    acted,      \* external commands the process issued since run() was entered
    runStart,   \* state.stage when main called run(), "none" before
    probe,      \* clusterStatus the latest step's status probe answered
    step,       \* the action that took the latest step
    prevEnded,  \* how the process before the running one ended
    ret,        \* what the latest run() returned: "none", "true", "false"
    ended,      \* how the latest process ended
    loadResult, \* outcome of the latest StateManager._load
    seen,       \* what the external system answered to the latest step's poll
    log,        \* the commands of acted, in the order they were issued
    clean,      \* every external action since run() was entered succeeded
    waited,     \* [probes, slept] of the cluster-status wait the latest step was in
    \* test_api_connection.py
    tpc,        \* position of the connection tester
    invites,    \* what ram.get_resource_share_invitations() lists, in its order
    accepted,   \* positions in invites of the invitations the tester accepted
    resp,       \* outcome of the tester's first POST
    report,     \* the tester's last line: "none", "success", "failure"
    \* uninstall.py
    upc,        \* position of the uninstaller; "exit 0", "exit 1" once ended
    args,       \* its command line: [cluster_name, force, dry_run]
    tfvars,     \* what load_tfvars() returned: [cluster_name, cluster_id, exists]
    cluster_name, \* the target of the uninstall
    confirm_id, \* the cluster id entered at the confirmation prompt
    deleted,    \* what delete_pcluster returned: "none", "True", "False"
    cfn,        \* what cfn.describe_stacks answered to the uninstaller's latest probe
    did,        \* the destructive actions of the uninstaller, in order
    \* event_forwarder.py
    fwd_in,     \* an invocation of the forwarder: the event and what AWS answers
    fwd_out,    \* what the invocation gave: [status, reason, source, detail_type, puts]
    \* lambda/handler.py (the shipper)
    ship_in,    \* an invocation of the shipper: the SQS records and the API's answer
    ship_out,   \* what the invocation gave: [status, tables, calls]
    \* diagnose_slurm.py, diagnose_startup.py: send_ssm_command
    ssm_pc,     \* position in send_ssm_command
    ssm_polls,  \* get_command_invocation calls made
    ssm_slept,  \* seconds slept
    ssm_out     \* what send_ssm_command returned

testVars == << tpc, invites, accepted, resp, report >>
uninstallVars == << upc, args, tfvars, cluster_name, confirm_id, deleted, cfn, did >>
forwarderVars == << fwd_in, fwd_out >>
shipperVars == << ship_in, ship_out >>
diagnoseVars == << ssm_pc, ssm_polls, ssm_slept, ssm_out >>
toolVars == << forwarderVars, shipperVars, diagnoseVars >>
scriptVars == << testVars, uninstallVars, toolVars >>
installVars == << file, state, pc, dry, dry_run, runs, polls, issued, created, acted,
                  runStart, probe, prevEnded, ret, ended, loadResult, seen, log, clean,
                  waited >>

vars == << file, state, pc, dry, dry_run, runs, polls, issued, created, acted, runStart,
           probe, step, prevEnded, ret, ended, loadResult, seen, log, clean, waited,
           testVars, uninstallVars, toolVars >>

(***************************************************************************)
(* Bounds of the model.                                                    *)
(***************************************************************************)
MaxRuns == 3        \* installer processes per behaviour
MaxPolls == 3       \* non-terminal answers tolerated by one wait loop
MaxInvites == 2     \* invitations the resource-share listing returns

\* time.sleep(30) of the cluster-status wait, in seconds
PollInterval == 30

\* no probe of a cluster-status wait has been made
NoWait == [ probes |-> 0, slept |-> 0 ]

(***************************************************************************)
(* DeploymentStage: member names in declaration order, and their values.   *)
(***************************************************************************)
DeploymentStage ==
    << "NOT_STARTED", "STAGE_1A_GENERATE_CONFIG", "STAGE_1B_PCLUSTER_PENDING",
       "STAGE_1C_PCLUSTER_COMPLETE", "STAGE_2A_CONNECTIVITY",
       "STAGE_2B_CONFIGURE_SLURMRESTD", "STAGE_2C_VERIFY_SLURMRESTD",
       "STAGE_3A_EVENTS", "STAGE_4A_REGISTER", "COMPLETE", "FAILED" >>

StageValues ==
    << "not_started", "1a_generate_config", "1b_pcluster_pending",
       "1c_pcluster_complete", "2a_connectivity", "2b_configure_slurmrestd",
       "2c_verify_slurmrestd", "3a_events", "4a_register", "complete",
       "failed" >>

Stages == { DeploymentStage[i] : i \in DOMAIN DeploymentStage }

\* list(DeploymentStage).index(s), counted from 0
StageIndex(s) == (CHOOSE i \in DOMAIN DeploymentStage : DeploymentStage[i] = s) - 1

\* DeploymentStage.<member>.value
StageValue(s) == StageValues[StageIndex(s) + 1]

IsStageValue(v) == \E i \in DOMAIN StageValues : StageValues[i] = v

\* DeploymentStage(v) for a string v that is a value of the enumeration
StageOfValue(v) ==
    DeploymentStage[CHOOSE i \in DOMAIN StageValues : StageValues[i] = v]

(***************************************************************************)
(* Python values: None is a value of its own; "" and None are falsy.       *)
(***************************************************************************)
None == "<None>"
Truthy(x) == x \notin { "", None }

(***************************************************************************)
(* DeploymentState.  The fields no stage reads or writes differently       *)
(* (version, cluster_name, region, vpc_id, subnet_id, the timestamps) are  *)
(* left out; they are copied by to_dict/from_dict like the others.         *)
(***************************************************************************)
DeploymentState(created_at) ==
    [ stage |-> "NOT_STARTED",
      scenario |-> "",
      tenant_id |-> "",
      cluster_id |-> "",
      pcluster_config_path |-> "",
      slurm_jwt_secret_arn |-> "",
      head_node_instance_id |-> "",
      lattice_service_endpoint |-> "",
      lattice_service_network_id |-> "",
      iam_role_arn |-> "",
      iam_external_id |-> "",
      error_message |-> "" ]

FreshState == DeploymentState("now")

\* to_dict that leaves the stage member as it is
ToDictKeepsMember(s) == s

\* DeploymentState.to_dict: the stage member is replaced by its value
to_dict(s) == [s EXCEPT !.stage = StageValue(s.stage)]

\* the old stage names of from_dict's migration map
LegacyNames ==
    { "stage_1_infra", "stage_2_pcluster_pending", "stage_2_pcluster_complete",
      "stage_3_connect", "stage_3_configure_slurmrestd",
      "stage_3_verify_slurmrestd", "stage_4_register", "stage_5_events" }

\* a map that leaves every name as it is
MigrateNothing(raw) == raw

\* stage_migration.get(raw, raw)
stage_migration(raw) ==
    CASE raw = "stage_1_infra" -> "1a_generate_config"
      [] raw = "stage_2_pcluster_pending" -> "1b_pcluster_pending"
      [] raw = "stage_2_pcluster_complete" -> "1c_pcluster_complete"
      [] raw = "stage_3_connect" -> "2a_connectivity"
      [] raw = "stage_3_configure_slurmrestd" -> "2b_configure_slurmrestd"
      [] raw = "stage_3_verify_slurmrestd" -> "2c_verify_slurmrestd"
      [] raw = "stage_4_register" -> "4a_register"
      [] raw = "stage_5_events" -> "3a_events"
      [] OTHER -> raw

\* a document without a 'stage' key
NoKey == "<no key>"

\* DeploymentState.from_dict: [exc, state]; exc names the exception raised
from_dict(d) ==
    LET raw_stage == IF d.stage = NoKey THEN "not_started" ELSE d.stage
        migrated_stage == stage_migration(raw_stage)
    IN  IF IsStageValue(migrated_stage)
        THEN [ exc |-> "none",
               state |-> [d EXCEPT !.stage = StageOfValue(migrated_stage)] ]
        ELSE [ exc |-> "ValueError", state |-> FreshState ]

(***************************************************************************)
(* The state file.  kind says what the bytes on disk are:                  *)
(*   "absent"       no file                                                *)
(*   "object"       a JSON object; doc is its content                      *)
(*   "text"         text that is not JSON (a truncated document, garbage)  *)
(*   "other_json"   valid JSON that is not an object ([], 3, "x", null)    *)
(*   "undecodable"  bytes that are not text in the locale's encoding       *)
(***************************************************************************)
NoDoc == to_dict(FreshState)
Absent == [ kind |-> "absent", doc |-> NoDoc ]
FileOf(s) == [ kind |-> "object", doc |-> to_dict(s) ]

\* StateManager._load: the set of possible outcomes [exc, state, fresh].
\* Only JSONDecodeError and KeyError are caught.  read_text decodes with the
\* locale's encoding, so undecodable bytes either raise UnicodeDecodeError
\* (UTF-8) or come back as text that json.loads rejects (an 8-bit locale).
Loaded(st) == [ exc |-> "none", state |-> st, fresh |-> FALSE ]
LoadedFresh == [ exc |-> "none", state |-> FreshState, fresh |-> TRUE ]
Raised(e) == [ exc |-> e, state |-> FreshState, fresh |-> FALSE ]

_load(f) ==
    CASE f.kind = "absent" -> { LoadedFresh }
      [] f.kind = "text" -> { LoadedFresh }
      [] f.kind = "undecodable" -> { Raised("UnicodeDecodeError"), LoadedFresh }
      [] f.kind = "other_json" -> { Raised("AttributeError") }
      [] f.kind = "object" ->
            LET r == from_dict(f.doc)
            IN  IF r.exc = "none" THEN { Loaded(r.state) } ELSE { Raised(r.exc) }

\* StateManager.save: the whole state is written over the file
save(s) == FileOf(s)

\* set_stage that leaves the stage as it is
SetStageKeeps(s, stage) == s

\* StateManager.set_stage: the new in-memory state (then saved)
set_stage(s, stage) == [s EXCEPT !.stage = stage]

\* StateManager.set_failed: the new in-memory state (then saved)
set_failed(s, error) == [s EXCEPT !.error_message = error, !.stage = "FAILED"]

(***************************************************************************)
(* The external commands the orchestrator issues.                          *)
(***************************************************************************)
Commands ==
    { "tofu_init", "tofu_apply_parallelcluster", "pcluster_create_cluster",
      "tofu_apply_connectivity", "ssm_setup", "ssm_verify",
      "tofu_apply_events", "register_post" }

\* the order in which one stage body issues its commands
CommandOrder ==
    << "tofu_init", "tofu_apply_parallelcluster", "pcluster_create_cluster",
       "tofu_apply_connectivity", "ssm_setup", "ssm_verify", "tofu_apply_events",
       "register_post" >>

InOrder(cs) == SelectSeq(CommandOrder, LAMBDA c : c \in cs)

\* the commands counted over the whole deployment: the one that creates a
\* resource outside the tofu state
Counted == { "pcluster_create_cluster" }

NoneIssued == [c \in Counted |-> 0]

\* the commands cs are issued, in the order the body issues them
Issue(cs) ==
    /\ issued' = [c \in Counted |-> IF c \in cs THEN issued[c] + 1 ELSE issued[c]]
    /\ acted' = acted \cup cs
    /\ log' = log \o InOrder(cs)

NoIssue == UNCHANGED << issued, acted, log >>

(***************************************************************************)
(* How a step of the process ends.                                         *)
(***************************************************************************)
\* the body saved s and calls the next body
Chain(s, label, d) ==
    /\ state' = s
    /\ file' = save(s)
    /\ pc' = label
    /\ dry_run' = d
    /\ polls' = 0
    /\ UNCHANGED << ret, ended >>

\* a body that saves s and goes on with the stage body it is in
ReturnAndGoOn(s, r) ==
    /\ file' = save(s)
    /\ state' = s
    /\ pc' = pc
    /\ UNCHANGED << dry_run, polls, ret, ended >>


\* the body saved s and run() returns r to main, which returns; state keeps
\* what the StateManager held when the process ended
Return(s, r) ==
    /\ file' = save(s)
    /\ state' = s
    /\ pc' = "off"
    /\ dry_run' = FALSE
    /\ polls' = 0
    /\ ret' = r
    /\ ended' = "returned"

\* run() returns r without any save since the last one
ReturnUnsaved(r) ==
    /\ UNCHANGED << file, state >>
    /\ pc' = "off"
    /\ dry_run' = FALSE
    /\ polls' = 0
    /\ ret' = r
    /\ ended' = "returned"

\* main returns before run() was called
Exit(how) ==
    /\ state' = FreshState
    /\ pc' = "off"
    /\ dry_run' = FALSE
    /\ polls' = 0
    /\ ended' = how

(***************************************************************************)
(* main: construction of the StateManager, --reset, and the resume prompts *)
(***************************************************************************)
\* StateManager.clear, and with it the end of the deployment
Clear ==
    /\ file' = Absent
    /\ state' = FreshState
    /\ issued' = NoneIssued
    /\ created' = FALSE

\* A process starts: StateManager(state_file) loads the file.  An exception
\* _load does not catch ends the process before anything else happens.
StartProcess(reset, d) ==
    /\ step' = "StartProcess"
    /\ UNCHANGED scriptVars
    /\ waited' = NoWait
    /\ seen' = "none"
    /\ clean' = TRUE
    /\ pc = "off"
    /\ runs < MaxRuns
    /\ runs' = runs + 1
    /\ dry' = d
    /\ ret' = "none"
    /\ \E r \in _load(file) :
         /\ loadResult' = (IF r.exc # "none" THEN r.exc
                           ELSE IF r.fresh THEN "fresh" ELSE "loaded")
         /\ IF r.exc # "none"
            THEN /\ Exit("traceback")
                 /\ UNCHANGED << file, issued, created >>
            ELSE IF reset
            THEN /\ Clear
                 /\ pc' = "off"
                 /\ ended' = "returned"
                 /\ UNCHANGED << dry_run, polls >>
            ELSE /\ state' = r.state
                 /\ pc' = "main"
                 /\ ended' = "running"
                 /\ UNCHANGED << file, issued, created, dry_run, polls >>
    /\ prevEnded' = ended
    /\ acted' = {}
    /\ log' = << >>
    /\ runStart' = "none"
    /\ probe' = "none"

\* word in error_message.lower(), for the two words main looks for and the
\* messages a state can hold
Mentions(word, error_message) ==
    CASE word = "connectivity" -> error_message \in { "tofu apply (connectivity) failed" }
      [] word = "tofu" ->
            error_message \in { "tofu init failed", "tofu apply (connectivity) failed",
                                "tofu apply (events) failed" }

\* main, stage FAILED: the stage named after "Will retry from:"
retry_stage(s) ==
    IF Truthy(s.cluster_id) THEN "STAGE_3A_EVENTS"
    ELSE IF Truthy(s.lattice_service_endpoint) THEN "STAGE_3A_EVENTS"
    ELSE IF Truthy(s.head_node_instance_id) THEN "STAGE_2A_CONNECTIVITY"
    ELSE IF \/ Mentions("connectivity", s.error_message)
            \/ Mentions("tofu", s.error_message) /\ Truthy(s.pcluster_config_path)
    THEN "STAGE_2A_CONNECTIVITY"
    ELSE IF Truthy(s.pcluster_config_path) THEN "STAGE_1B_PCLUSTER_PENDING"
    ELSE "STAGE_1A_GENERATE_CONFIG"

\* main with a state that is not NOT_STARTED: the prompts "Start a new
\* deployment?", "Resume from ...?" and "Start fresh?"
MainResume(resume, startFresh) ==
    /\ step' = "MainResume"
    /\ UNCHANGED scriptVars
    /\ waited' = NoWait
    /\ seen' = "none"
    /\ UNCHANGED clean
    /\ pc = "main"
    /\ state.stage # "NOT_STARTED"
    /\ IF state.stage # "COMPLETE" /\ resume
       THEN /\ pc' = "run"
            /\ UNCHANGED << file, state, issued, created, ended, dry_run, polls >>
       ELSE IF startFresh
       THEN /\ Clear
            /\ pc' = "gather"
            /\ UNCHANGED << ended, dry_run, polls >>
       ELSE /\ Exit("returned")
            /\ UNCHANGED << file, issued, created >>
    /\ probe' = "none"
    /\ UNCHANGED << dry, runs, acted, log, runStart, prevEnded, ret, loadResult >>

MainFresh ==
    /\ step' = "MainFresh"
    /\ UNCHANGED scriptVars
    /\ waited' = NoWait
    /\ seen' = "none"
    /\ UNCHANGED clean
    /\ pc = "main"
    /\ state.stage = "NOT_STARTED"
    /\ pc' = "gather"
    /\ probe' = "none"
    /\ UNCHANGED << file, state, dry, dry_run, runs, polls, issued, created, acted, log,
                    runStart, prevEnded, ret, ended, loadResult >>

\* gather_initial_config, the pre-flight checks and "Proceed with
\* deployment?".  upto says how far main gets: every update() made before a
\* cancelled prompt has been saved; "preflight" is a failed pre-flight
\* check, which ends the process with sys.exit(1).
GatherSteps == { "scenario", "head_node", "tenant", "preflight", "proceed", "run" }

gather_initial_config(s, scenario, upto) ==
    LET s1 == IF upto = "scenario" THEN s ELSE [s EXCEPT !.scenario = scenario]
        s2 == IF scenario = "existing"
                 /\ upto \in { "tenant", "preflight", "proceed", "run" }
              THEN [s1 EXCEPT !.head_node_instance_id = "i-1"] ELSE s1
    IN  IF upto \in { "preflight", "proceed", "run" }
        THEN [s2 EXCEPT !.tenant_id = "ten_1"] ELSE s2

GatherConfig(scenario, upto) ==
    /\ step' = "GatherConfig"
    /\ UNCHANGED scriptVars
    /\ waited' = NoWait
    /\ seen' = "none"
    /\ UNCHANGED clean
    /\ pc = "gather"
    /\ LET s == gather_initial_config(state, scenario, upto)
       IN  /\ file' = (IF upto = "scenario" THEN file ELSE save(s))
           /\ IF upto = "run"
              THEN /\ state' = s
                   /\ pc' = "run"
                   /\ UNCHANGED << ended, dry_run, polls >>
              ELSE IF upto = "preflight"
              THEN Exit("sys.exit(1)")
              ELSE Exit("returned")
    /\ probe' = "none"
    /\ UNCHANGED << dry, runs, issued, created, acted, log, runStart, prevEnded, ret,
                    loadResult >>

\* The exit status of a process that ended as e: main returned, or
\* sys.exit(1) was called, or an exception left main (the interpreter exits
\* with 1 after the traceback), or a signal killed it (-9)
ExitCode(e) ==
    IF e = "returned" THEN 0
    ELSE IF e \in { "sys.exit(1)", "traceback" } THEN 1
    ELSE -9

(***************************************************************************)
(* Orchestrator.run: the dispatch on the current stage                     *)
(***************************************************************************)
\* Dispatch with CLUSTER_COMPLETE routed to the creation body
DispatchRecreate(stage) ==
    CASE stage \in { "NOT_STARTED", "STAGE_1A_GENERATE_CONFIG" } -> "stage_1"
      [] stage \in { "STAGE_1B_PCLUSTER_PENDING", "STAGE_1C_PCLUSTER_COMPLETE" } ->
            "stage_2_create"
      [] stage = "STAGE_2A_CONNECTIVITY" -> "stage_3_connect"
      [] stage = "STAGE_2B_CONFIGURE_SLURMRESTD" -> "stage_3_configure"
      [] stage = "STAGE_2C_VERIFY_SLURMRESTD" -> "stage_3_verify"
      [] stage = "STAGE_3A_EVENTS" -> "stage_events"
      [] stage = "STAGE_4A_REGISTER" -> "stage_register"

\* Dispatch with VERIFY_DAEMON routed to the connectivity body
DispatchBack(stage) ==
    CASE stage \in { "NOT_STARTED", "STAGE_1A_GENERATE_CONFIG" } -> "stage_1"
      [] stage = "STAGE_1B_PCLUSTER_PENDING" -> "stage_2_create"
      [] stage \in { "STAGE_1C_PCLUSTER_COMPLETE", "STAGE_2A_CONNECTIVITY",
                     "STAGE_2C_VERIFY_SLURMRESTD" } -> "stage_3_connect"
      [] stage = "STAGE_2B_CONFIGURE_SLURMRESTD" -> "stage_3_configure"
      [] stage = "STAGE_3A_EVENTS" -> "stage_events"
      [] stage = "STAGE_4A_REGISTER" -> "stage_register"

\* the stage body run() calls for a stage
Dispatch(stage) ==
    CASE stage = "NOT_STARTED" -> "stage_1"
      [] stage = "STAGE_1A_GENERATE_CONFIG" -> "stage_1"
      [] stage = "STAGE_1B_PCLUSTER_PENDING" -> "stage_2_create"
      [] stage = "STAGE_1C_PCLUSTER_COMPLETE" -> "stage_3_connect"
      [] stage = "STAGE_2A_CONNECTIVITY" -> "stage_3_connect"
      [] stage = "STAGE_2B_CONFIGURE_SLURMRESTD" -> "stage_3_configure"
      [] stage = "STAGE_2C_VERIFY_SLURMRESTD" -> "stage_3_verify"
      [] stage = "STAGE_3A_EVENTS" -> "stage_events"
      [] stage = "STAGE_4A_REGISTER" -> "stage_register"

\* a retry that does not look at the head node
RetryStageNoHeadNode(s) ==
    IF Truthy(s.cluster_id) THEN "STAGE_3A_EVENTS"
    ELSE IF Truthy(s.lattice_service_endpoint) THEN "STAGE_3A_EVENTS"
    ELSE IF Truthy(s.pcluster_config_path) THEN "STAGE_1B_PCLUSTER_PENDING"
    ELSE "STAGE_1A_GENERATE_CONFIG"

\* _retry_from_last_good_stage: the stage it sets before calling run()
RetryStage(s) ==
    IF Truthy(s.cluster_id) THEN "STAGE_3A_EVENTS"
    ELSE IF Truthy(s.lattice_service_endpoint) THEN "STAGE_3A_EVENTS"
    ELSE IF Truthy(s.head_node_instance_id) THEN "STAGE_2A_CONNECTIVITY"
    ELSE IF Truthy(s.pcluster_config_path) THEN "STAGE_1B_PCLUSTER_PENDING"
    ELSE "STAGE_1A_GENERATE_CONFIG"

\* run(dry_run) as main calls it.  From FAILED, a confirmed retry sets the
\* stage and calls run() again, which dispatches on the stage just set.
Run(retry) ==
    /\ step' = "Run"
    /\ UNCHANGED scriptVars
    /\ waited' = NoWait
    /\ seen' = "none"
    /\ clean' = TRUE
    /\ pc = "run"
    /\ runStart' = state.stage
    /\ acted' = {}
    /\ log' = << >>
    /\ IF state.stage = "COMPLETE"
       THEN ReturnUnsaved("true")
       ELSE IF state.stage = "FAILED"
       THEN IF retry
            THEN LET s == set_stage(state, RetryStage(state))
                 IN  Chain(s, Dispatch(s.stage), dry)
            ELSE ReturnUnsaved("false")
       ELSE /\ pc' = Dispatch(state.stage)
            /\ dry_run' = dry
            /\ polls' = 0
            /\ UNCHANGED << file, state, ret, ended >>
    /\ probe' = "none"
    /\ UNCHANGED << dry, runs, issued, created, prevEnded, loadResult >>

(***************************************************************************)
(* The stage bodies.  Each action is one body up to the call of the next   *)
(* body (or one tick of a wait loop); its parameters are the answers of    *)
(* the external systems.                                                   *)
(***************************************************************************)
Frame == UNCHANGED << dry, runs, runStart, prevEnded, loadResult >>
Uncreated == UNCHANGED created

\* _run_stage_1
RunStage1(init_ok, apply_ok) ==
    /\ step' = "RunStage1"
    /\ UNCHANGED scriptVars
    /\ waited' = NoWait
    /\ seen' = "none"
    /\ clean' = (clean /\ init_ok /\ apply_ok)
    /\ pc = "stage_1"
    /\ IF state.scenario = "new"
       THEN IF dry_run
            THEN /\ Return(set_stage(state, "STAGE_1B_PCLUSTER_PENDING"), "true")
                 /\ NoIssue
            ELSE IF ~init_ok
            THEN /\ Issue({ "tofu_init" })
                 /\ Return(set_failed(state, "tofu init failed"), "false")
            ELSE IF ~apply_ok
            THEN /\ Issue({ "tofu_init", "tofu_apply_parallelcluster" })
                 /\ Return(set_failed(state, "Failed to generate pcluster config"),
                           "false")
            ELSE /\ Issue({ "tofu_init", "tofu_apply_parallelcluster" })
                 /\ Chain(set_stage([state EXCEPT !.pcluster_config_path = "config.yaml"],
                                    "STAGE_1B_PCLUSTER_PENDING"),
                          "stage_2_create", FALSE)
       ELSE IF dry_run
            THEN /\ Return(set_stage(state, "STAGE_2A_CONNECTIVITY"), "true")
                 /\ NoIssue
            ELSE IF ~init_ok
            THEN /\ Issue({ "tofu_init" })
                 /\ Return(set_failed(state, "tofu init failed"), "false")
            ELSE /\ Issue({ "tofu_init" })
                 /\ Chain(set_stage(state, "STAGE_2A_CONNECTIVITY"),
                          "stage_3_connect", dry_run)
    /\ probe' = "none"
    /\ Frame
    /\ Uncreated

\* what cfn.describe_stacks answers: an error (also: no such stack), no
\* stacks, or the status of the stack
StackAnswers ==
    { "ClientError", "no stacks", "CREATE_IN_PROGRESS", "CREATE_COMPLETE",
      "CREATE_FAILED", "ROLLBACK_IN_PROGRESS", "ROLLBACK_COMPLETE",
      "ROLLBACK_FAILED", "DELETE_IN_PROGRESS" }

\* get_pcluster_status_via_boto3: None, or the clusterStatus of the dict.
\* No stack status but the three themselves contains one of the three names.
get_pcluster_status_via_boto3(answer) ==
    CASE answer \in { "ClientError", "no stacks" } -> None
      [] answer = "CREATE_COMPLETE" -> "CREATE_COMPLETE"
      [] answer = "CREATE_IN_PROGRESS" -> "CREATE_IN_PROGRESS"
      [] answer = "CREATE_FAILED" -> "CREATE_FAILED"
      [] OTHER -> "UNKNOWN"

\* a wait loop that sleeps only while the creation is in progress
SleepsInProgressOnly(cluster_status) ==
    IF cluster_status = "CREATE_IN_PROGRESS" THEN PollInterval ELSE 0

\* the seconds _run_stage_2_wait sleeps after a probe answered cluster_status
\* (None: no status): none after the two statuses that end the loop
Sleeps(cluster_status) ==
    IF cluster_status \in { "CREATE_COMPLETE", "CREATE_FAILED" } THEN 0 ELSE PollInterval

\* CreateIsCalled without the CREATE_COMPLETE branch
CreateIsCalledWhenComplete(cluster_status) ==
    cluster_status \notin { "CREATE_IN_PROGRESS", "CREATING", "CREATE_FAILED" }

\* _run_stage_2_create: whether the body goes on to pcluster create-cluster
\* after the probe answered cluster_status (None: no answer)
CreateIsCalled(cluster_status) ==
    cluster_status \notin { "CREATE_COMPLETE", "CREATE_IN_PROGRESS", "CREATING",
                            "CREATE_FAILED" }

\* _run_stage_2_create.  outcome: "ok", "already exists" or "error", the
\* outcome of pcluster create-cluster.
RunStage2Create(answer, outcome) ==
    /\ step' = "RunStage2Create"
    /\ UNCHANGED scriptVars
    /\ waited' = NoWait
    /\ seen' = answer
    /\ clean' = (clean /\ answer \in { "ClientError", "no stacks" } /\ outcome = "ok")
    /\ pc = "stage_2_create"
    /\ IF ~Truthy(state.pcluster_config_path)
       THEN /\ ReturnUnsaved("false")
            /\ NoIssue
            /\ probe' = "none"
            /\ Uncreated
       ELSE LET cluster_status == get_pcluster_status_via_boto3(answer)
            IN  /\ probe' = cluster_status
                /\ IF CreateIsCalled(cluster_status)
                   THEN /\ Issue({ "pcluster_create_cluster" })
                        /\ created' = (created \/ outcome = "ok")
                        /\ IF outcome = "error"
                           THEN Return(set_failed(state, "pcluster create failed: stderr"),
                                       "false")
                           ELSE /\ pc' = "stage_2_wait"
                                /\ polls' = 0
                                /\ UNCHANGED << file, state, dry_run, ret, ended >>
                   ELSE /\ NoIssue
                        /\ Uncreated
                        /\ IF cluster_status = "CREATE_COMPLETE"
                           THEN Chain(set_stage(state, "STAGE_1C_PCLUSTER_COMPLETE"),
                                      "stage_3_connect", FALSE)
                           ELSE IF cluster_status = "CREATE_FAILED"
                           THEN Return(set_failed(state, "Cluster creation previously failed"),
                                       "false")
                           ELSE /\ pc' = "stage_2_wait"
                                /\ polls' = 0
                                /\ UNCHANGED << file, state, dry_run, ret, ended >>
    /\ Frame

\* _run_stage_2_wait: one turn of the while True loop
RunStage2Wait(answer) ==
    /\ step' = "RunStage2Wait"
    /\ UNCHANGED scriptVars
    /\ waited' = [ probes |-> waited.probes + 1,
                   slept |-> waited.slept + Sleeps(get_pcluster_status_via_boto3(answer)) ]
    /\ seen' = answer
    /\ clean' = (clean /\ answer \in { "CREATE_IN_PROGRESS", "CREATE_COMPLETE" })
    /\ pc = "stage_2_wait"
    /\ LET cluster_status == get_pcluster_status_via_boto3(answer)
       IN  /\ probe' = cluster_status
           /\ IF cluster_status = "CREATE_COMPLETE"
              THEN Chain(set_stage(state, "STAGE_1C_PCLUSTER_COMPLETE"),
                         "stage_3_connect", FALSE)
              ELSE IF cluster_status = "CREATE_FAILED"
              THEN Return(set_failed(state, "ParallelCluster creation failed"), "false")
              ELSE /\ polls < MaxPolls
                   /\ polls' = polls + 1
                   /\ UNCHANGED << file, state, pc, dry_run, ret, ended >>
    /\ NoIssue
    /\ Frame
    /\ Uncreated

\* the clusterra_onboarding object of tofu output -json: all of it, or
\* nothing when the output cannot be read
Onboarding ==
    { [ lattice_service_endpoint |-> "svc.endpoint", lattice_service_network_id |-> "sn-1",
        role_arn |-> "arn:role", external_id |-> "ext-1",
        slurm_jwt_secret_arn |-> "arn:secret" ],
      [ lattice_service_endpoint |-> "", lattice_service_network_id |-> "",
        role_arn |-> "", external_id |-> "", slurm_jwt_secret_arn |-> None ] }

\* _run_stage_3_connect
RunStage3Connect(apply_ok, onboarding) ==
    /\ step' = "RunStage3Connect"
    /\ UNCHANGED scriptVars
    /\ waited' = NoWait
    /\ seen' = "none"
    /\ clean' = (clean /\ apply_ok /\ Truthy(onboarding.slurm_jwt_secret_arn))
    /\ pc = "stage_3_connect"
    /\ IF dry_run
       THEN /\ Return(set_stage(state, "STAGE_2B_CONFIGURE_SLURMRESTD"), "true")
            /\ NoIssue
       ELSE /\ Issue({ "tofu_apply_connectivity" })
            /\ IF ~apply_ok
               THEN Return(set_failed(state, "tofu apply (connectivity) failed"), "false")
               ELSE Chain(set_stage(
                            [state EXCEPT
                               !.lattice_service_endpoint = onboarding.lattice_service_endpoint,
                               !.lattice_service_network_id = onboarding.lattice_service_network_id,
                               !.iam_role_arn = onboarding.role_arn,
                               !.iam_external_id = onboarding.external_id],
                            "STAGE_2B_CONFIGURE_SLURMRESTD"),
                          "stage_3_configure", dry_run)
    /\ probe' = "none"
    /\ Frame
    /\ Uncreated

\* _run_stage_3_configure up to the wait loop of _run_ssm_setup.  sent:
\* "sent" (send_command answered), "no script" (setup-slurmrestd.sh is
\* missing), "ClientError" (send_command raised it, and the prompt "Did you
\* run the script manually?" is next).
RunStage3Configure(onboarding, sent) ==
    /\ step' = "RunStage3Configure"
    /\ UNCHANGED scriptVars
    /\ waited' = NoWait
    /\ seen' = "none"
    /\ clean' = (clean /\ sent = "sent" /\ Truthy(onboarding.slurm_jwt_secret_arn))
    /\ pc = "stage_3_configure"
    /\ IF dry_run
       THEN /\ Return(set_stage(state, "STAGE_2C_VERIFY_SLURMRESTD"), "true")
            /\ NoIssue
       ELSE IF Truthy(onboarding.slurm_jwt_secret_arn) /\ Truthy(state.head_node_instance_id)
       THEN CASE sent = "no script" ->
                   /\ NoIssue
                   /\ Return(set_failed(state, "slurmrestd configuration failed"), "false")
              [] sent = "sent" ->
                   /\ Issue({ "ssm_setup" })
                   /\ pc' = "ssm_setup_wait"
                   /\ polls' = 0
                   /\ UNCHANGED << file, state, dry_run, ret, ended >>
              [] sent = "ClientError" ->
                   /\ Issue({ "ssm_setup" })
                   /\ pc' = "ssm_manual_prompt"
                   /\ polls' = 0
                   /\ UNCHANGED << file, state, dry_run, ret, ended >>
       ELSE /\ NoIssue
            /\ Chain(set_stage(state, "STAGE_2C_VERIFY_SLURMRESTD"),
                     "stage_3_verify", dry_run)
    /\ probe' = "none"
    /\ Frame
    /\ Uncreated

\* _run_ssm_setup: the answer to "Did you run the script manually?", and
\* the rest of _run_stage_3_configure
ManualPrompt(answer) ==
    /\ step' = "ManualPrompt"
    /\ UNCHANGED scriptVars
    /\ waited' = NoWait
    /\ seen' = "none"
    /\ clean' = FALSE
    /\ pc = "ssm_manual_prompt"
    /\ IF answer
       THEN Chain(set_stage(state, "STAGE_2C_VERIFY_SLURMRESTD"), "stage_3_verify", dry_run)
       ELSE Return(set_failed(state, "slurmrestd configuration failed"), "false")
    /\ NoIssue
    /\ probe' = "none"
    /\ Frame
    /\ Uncreated

\* the Status of ssm.get_command_invocation
SsmStatuses ==
    { "Pending", "InProgress", "Delayed", "Success", "Cancelled", "TimedOut",
      "Failed", "Cancelling" }

\* _run_ssm_setup: one turn of its while True loop, and the rest of
\* _run_stage_3_configure once it returns
SsmSetupPoll(status) ==
    /\ step' = "SsmSetupPoll"
    /\ UNCHANGED scriptVars
    /\ waited' = NoWait
    /\ seen' = status
    /\ clean' = (clean /\ status \in { "Pending", "InProgress", "Success" })
    /\ pc = "ssm_setup_wait"
    /\ IF status = "Success"
       THEN Chain(set_stage(state, "STAGE_2C_VERIFY_SLURMRESTD"),
                  "stage_3_verify", dry_run)
       ELSE IF status \in { "Failed", "Cancelled", "TimedOut" }
       THEN Return(set_failed(state, "slurmrestd configuration failed"), "false")
       ELSE IF status \notin { "Pending", "InProgress" }
       THEN Return(set_failed(state, "slurmrestd configuration failed"), "false")
       ELSE /\ polls < MaxPolls
            /\ polls' = polls + 1
            /\ UNCHANGED << file, state, pc, dry_run, ret, ended >>
    /\ NoIssue
    /\ probe' = "none"
    /\ Frame
    /\ Uncreated

\* range(5) of the verification loop
VerifyTicks == 5

\* _run_stage_3_verify up to its for loop.  sent_ok: send_command answered
\* (an exception there is caught, and the verification skipped)
RunStage3Verify(sent_ok) ==
    /\ step' = "RunStage3Verify"
    /\ UNCHANGED scriptVars
    /\ waited' = NoWait
    /\ seen' = (IF ~dry_run /\ Truthy(state.head_node_instance_id) /\ ~sent_ok
                THEN "exception" ELSE "none")
    /\ clean' = (clean /\ sent_ok)
    /\ pc = "stage_3_verify"
    /\ IF dry_run
       THEN /\ Return(set_stage(state, "STAGE_3A_EVENTS"), "true")
            /\ NoIssue
       ELSE IF Truthy(state.head_node_instance_id)
       THEN /\ Issue({ "ssm_verify" })
            /\ IF sent_ok
               THEN /\ pc' = "verify_wait"
                    /\ polls' = 0
                    /\ UNCHANGED << file, state, dry_run, ret, ended >>
               ELSE Chain(set_stage(state, "STAGE_3A_EVENTS"), "stage_events", dry_run)
       ELSE /\ NoIssue
            /\ Chain(set_stage(state, "STAGE_3A_EVENTS"), "stage_events", dry_run)
    /\ probe' = "none"
    /\ Frame
    /\ Uncreated

\* what one turn of the verification loop sees: a Status, with the port
\* listed in the output or not and the answer to "Continue anyway?", or an
\* exception of get_command_invocation
VerifyResults ==
    { "Success listening", "Success closed, continue", "Success closed, stop",
      "Failed", "Cancelled", "TimedOut", "Pending", "InProgress", "exception" }

\* _run_stage_3_verify: one turn of the for loop, and the lines after it
VerifyPoll(result) ==
    /\ step' = "VerifyPoll"
    /\ UNCHANGED scriptVars
    /\ waited' = NoWait
    /\ seen' = result
    /\ clean' = (clean /\ result \in { "Pending", "InProgress", "Success listening" })
    /\ pc = "verify_wait"
    /\ CASE result \in { "Success listening", "Success closed, continue", "exception" } ->
              Chain(set_stage(state, "STAGE_3A_EVENTS"), "stage_events", dry_run)
         [] result \in { "Success closed, stop", "Failed", "Cancelled", "TimedOut" } ->
              ReturnUnsaved("false")
         [] OTHER ->
              IF polls + 1 < VerifyTicks
              THEN /\ polls' = polls + 1
                   /\ UNCHANGED << file, state, pc, dry_run, ret, ended >>
              ELSE Chain(set_stage(state, "STAGE_3A_EVENTS"), "stage_events", dry_run)
    /\ NoIssue
    /\ probe' = "none"
    /\ Frame
    /\ Uncreated

\* _run_stage_events
RunStageEvents(apply_ok) ==
    /\ step' = "RunStageEvents"
    /\ UNCHANGED scriptVars
    /\ waited' = NoWait
    /\ seen' = "none"
    /\ clean' = (clean /\ apply_ok)
    /\ pc = "stage_events"
    /\ IF ~Truthy(state.cluster_id) \/ ~Truthy(state.tenant_id)
       THEN /\ NoIssue
            /\ Chain(set_stage(state, "STAGE_4A_REGISTER"), "stage_register", dry_run)
       ELSE IF dry_run
       THEN /\ NoIssue
            /\ Return(set_stage(state, "STAGE_4A_REGISTER"), "true")
       ELSE /\ Issue({ "tofu_apply_events" })
            /\ IF ~apply_ok
               THEN Return(set_failed(state, "tofu apply (events) failed"), "false")
               ELSE Chain(set_stage(state, "STAGE_4A_REGISTER"), "stage_register", dry_run)
    /\ probe' = "none"
    /\ Frame
    /\ Uncreated

\* what requests.post gives: 201 with or without a cluster_id in the body,
\* another status code, or a RequestException
\* what requests.post(url, json=payload, timeout=30) gives: a response, or
\* a RequestException, of which Timeout is one.  A 201 carries a JSON object
\* with a cluster_id ("201 cluster_id"), a JSON object without one ("201"),
\* or JSON that is no object ("201 no object": [], null, a string), on
\* which cluster.get raises AttributeError into run().
Responses ==
    { "201 cluster_id", "201", "201 no object", "500", "Timeout", "RequestException" }

\* _run_stage_register
RunStageRegister(response) ==
    /\ step' = "RunStageRegister"
    /\ UNCHANGED scriptVars
    /\ waited' = NoWait
    /\ seen' = (IF ~Truthy(state.tenant_id) \/ dry_run THEN "none" ELSE response)
    /\ clean' = (clean /\ response = "201 cluster_id")
    /\ pc = "stage_register"
    /\ IF ~Truthy(state.tenant_id) \/ dry_run
       THEN /\ NoIssue
            /\ Return(set_stage(state, "COMPLETE"), "true")
       ELSE /\ Issue({ "register_post" })
            /\ LET s == CASE response = "201 cluster_id" -> [state EXCEPT !.cluster_id = "cl_1"]
                          [] response = "201" -> [state EXCEPT !.cluster_id = None]
                          [] OTHER -> state
               IN  IF response = "201 no object"
                   THEN Return(set_failed(state, "error text"), "false")
                   ELSE Return(set_stage(s, "COMPLETE"), "true")
    /\ probe' = "none"
    /\ Frame
    /\ Uncreated

(***************************************************************************)
(* What ends run() from outside the stage bodies                           *)
(***************************************************************************)
RunPcs ==
    { "run", "stage_1", "stage_2_create", "stage_2_wait", "stage_3_connect",
      "stage_3_configure", "ssm_setup_wait", "ssm_manual_prompt", "stage_3_verify",
      "verify_wait", "stage_events", "stage_register" }

\* the process is killed (SIGKILL, power loss): the file stays as it is
Kill ==
    /\ step' = "Kill"
    /\ UNCHANGED scriptVars
    /\ waited' = NoWait
    /\ seen' = "none"
    /\ UNCHANGED clean
    /\ pc # "off"
    /\ state' = FreshState
    /\ pc' = "off"
    /\ dry_run' = FALSE
    /\ polls' = 0
    /\ ended' = "killed"
    /\ probe' = "none"
    /\ UNCHANGED << file, dry, runs, issued, created, acted, log, runStart, prevEnded, ret,
                    loadResult >>

\* The process is killed inside StateManager.save, which a call of update,
\* set_stage or set_failed has entered: write_text has opened the file for
\* writing, which empties it, and a part or none of the new document has
\* reached it (a kill after all of it did is the step that saves followed by
\* Kill).  A save lies ahead at every position of a stage body, in
\* gather_initial_config, and in run() at the retry from FAILED.
CrashInSave ==
    /\ step' = "CrashInSave"
    /\ UNCHANGED scriptVars
    /\ waited' = NoWait
    /\ seen' = "none"
    /\ UNCHANGED clean
    /\ \/ pc \in (RunPcs \ { "run" }) \cup { "gather" }
       \/ pc = "run" /\ state.stage = "FAILED"
    /\ file' = [ kind |-> "text", doc |-> NoDoc ]
    /\ state' = FreshState
    /\ pc' = "off"
    /\ dry_run' = FALSE
    /\ polls' = 0
    /\ ended' = "killed"
    /\ probe' = "none"
    /\ UNCHANGED << dry, runs, issued, created, acted, log, runStart, prevEnded, ret,
                    loadResult >>

\* The process is killed between an update(...) of output fields, which
\* saved them, and the set_stage that follows it: in _run_stage_1 (new
\* cluster), in _run_stage_3_connect and in _run_stage_register after a 201.
\* The file keeps the stage it had and holds the new outputs.
KillAfterUpdate(onboarding, response) ==
    /\ step' = "KillAfterUpdate"
    /\ UNCHANGED scriptVars
    /\ waited' = NoWait
    /\ seen' = "none"
    /\ UNCHANGED clean
    /\ ~dry_run
    /\ \/ /\ pc = "stage_1"
          /\ state.scenario = "new"
          /\ Issue({ "tofu_init", "tofu_apply_parallelcluster" })
          /\ file' = save([state EXCEPT !.pcluster_config_path = "config.yaml"])
       \/ /\ pc = "stage_3_connect"
          /\ Issue({ "tofu_apply_connectivity" })
          /\ file' = save([state EXCEPT
                              !.lattice_service_endpoint = onboarding.lattice_service_endpoint,
                              !.lattice_service_network_id = onboarding.lattice_service_network_id,
                              !.iam_role_arn = onboarding.role_arn,
                              !.iam_external_id = onboarding.external_id])
       \/ /\ pc = "stage_register"
          /\ Truthy(state.tenant_id)
          /\ response \in { "201 cluster_id", "201" }
          /\ Issue({ "register_post" })
          /\ file' = save([state EXCEPT
                              !.cluster_id = IF response = "201" THEN None ELSE "cl_1"])
    /\ state' = FreshState
    /\ pc' = "off"
    /\ dry_run' = FALSE
    /\ polls' = 0
    /\ ended' = "killed"
    /\ probe' = "none"
    /\ UNCHANGED << dry, runs, created, runStart, prevEnded, ret, loadResult >>

\* The user presses Ctrl-C inside run().  Outside a prompt the
\* KeyboardInterrupt reaches run()'s except clause.  At a prompt,
\* questionary's ask() catches it and returns None: "Retry from last
\* successful stage?" and "Continue anyway?" then return False, and "Did you
\* run the script manually?" makes _run_ssm_setup return None, which
\* _run_stage_3_configure takes for a failed setup.
KeyboardInterrupt ==
    /\ step' = "KeyboardInterrupt"
    /\ UNCHANGED scriptVars
    /\ waited' = NoWait
    /\ seen' = "none"
    /\ UNCHANGED clean
    /\ pc \in RunPcs
    /\ IF pc = "ssm_manual_prompt"
       THEN Return(set_failed(state, "slurmrestd configuration failed"), "false")
       ELSE ReturnUnsaved("false")
    /\ probe' = "none"
    /\ UNCHANGED << dry, runs, issued, created, acted, log, runStart, prevEnded, loadResult >>

\* str(e) of the exceptions a position can raise into run().  A prompt whose
\* input is at its end raises EOFError(), whose str is empty: the prompt
\* "Retry from last successful stage?" and "Did you run the script
\* manually?".  The verification loop catches every exception itself.
ExceptionTexts(p, s) ==
    CASE p = "run" -> IF s.stage = "FAILED" THEN { "" } ELSE {}
      [] p = "ssm_manual_prompt" -> { "" }
      [] p = "verify_wait" -> {}
      [] OTHER -> { "error text" }

\* run(): except Exception as e: set_failed(str(e))
RaiseException(text) ==
    /\ step' = "RaiseException"
    /\ UNCHANGED scriptVars
    /\ waited' = NoWait
    /\ seen' = "none"
    /\ UNCHANGED clean
    /\ pc \in RunPcs
    /\ text \in ExceptionTexts(pc, state)
    /\ Return(set_failed(state, text), "false")
    /\ probe' = "none"
    /\ UNCHANGED << dry, runs, issued, created, acted, log, runStart, prevEnded, loadResult >>

(***************************************************************************)
(* The installer in a directory without a state file; no companion script  *)
(* runs.                                                                   *)
(***************************************************************************)
\* terraform.tfvars was not generated
NoTfvars == [ cluster_name |-> "", cluster_id |-> "", exists |-> FALSE ]

TesterOff ==
    /\ tpc = "off"
    /\ invites = << >>
    /\ accepted = {}
    /\ resp = "none"
    /\ report = "none"

\* no invocation of the forwarder, of the shipper or of send_ssm_command
NoInvocation == [ status |-> "none" ]

ToolsOff ==
    /\ fwd_in = NoInvocation
    /\ fwd_out = NoInvocation
    /\ ship_in = NoInvocation
    /\ ship_out = NoInvocation
    /\ ssm_pc = "off"
    /\ ssm_polls = 0
    /\ ssm_slept = 0
    /\ ssm_out = NoInvocation

UninstallerOff ==
    /\ upc = "off"
    /\ args = [ cluster_name |-> "", force |-> FALSE, dry_run |-> FALSE ]
    /\ tfvars = NoTfvars
    /\ cluster_name = ""
    /\ confirm_id = "none"
    /\ deleted = "none"
    /\ cfn = "none"
    /\ did = << >>

\* no installer process has run and there is no state file
InstallerFresh ==
    /\ file = Absent
    /\ state = FreshState
    /\ pc = "off"
    /\ dry = FALSE
    /\ dry_run = FALSE
    /\ runs = 0
    /\ polls = 0
    /\ issued = NoneIssued
    /\ created = FALSE
    /\ acted = {}
    /\ runStart = "none"
    /\ probe = "none"
    /\ step = "Init"
    /\ prevEnded = "none"
    /\ ret = "none"
    /\ ended = "none"
    /\ loadResult = "none"
    /\ seen = "none"
    /\ log = << >>
    /\ clean = TRUE
    /\ waited = NoWait

Init ==
    /\ InstallerFresh
    /\ TesterOff
    /\ UninstallerOff
    /\ ToolsOff

Next ==
    \/ \E reset \in BOOLEAN, d \in BOOLEAN : StartProcess(reset, d)
    \/ \E resume \in BOOLEAN, startFresh \in BOOLEAN : MainResume(resume, startFresh)
    \/ MainFresh
    \/ \E scenario \in { "new", "existing" }, upto \in GatherSteps :
          GatherConfig(scenario, upto)
    \/ \E retry \in BOOLEAN : Run(retry)
    \/ \E init_ok \in BOOLEAN, apply_ok \in BOOLEAN : RunStage1(init_ok, apply_ok)
    \/ \E answer \in StackAnswers, outcome \in { "ok", "already exists", "error" } :
          RunStage2Create(answer, outcome)
    \/ \E answer \in StackAnswers : RunStage2Wait(answer)
    \/ \E apply_ok \in BOOLEAN, onboarding \in Onboarding :
          RunStage3Connect(apply_ok, onboarding)
    \/ \E onboarding \in Onboarding,
          sent \in { "sent", "no script", "ClientError" } :
          RunStage3Configure(onboarding, sent)
    \/ \E answer \in BOOLEAN : ManualPrompt(answer)
    \/ \E status \in SsmStatuses : SsmSetupPoll(status)
    \/ \E sent_ok \in BOOLEAN : RunStage3Verify(sent_ok)
    \/ \E result \in VerifyResults : VerifyPoll(result)
    \/ \E apply_ok \in BOOLEAN : RunStageEvents(apply_ok)
    \/ \E response \in Responses : RunStageRegister(response)
    \/ Kill
    \/ CrashInSave
    \/ \E onboarding \in Onboarding, response \in Responses :
          KillAfterUpdate(onboarding, response)
    \/ KeyboardInterrupt
    \/ \E text \in { "", "error text" } : RaiseException(text)

Spec == Init /\ [][Next]_vars

(***************************************************************************)
(* StateManager construction over a state file found in the directory:     *)
(* one written by this or an older installer, or damaged.                  *)
(***************************************************************************)
SavedStates ==
    { [FreshState EXCEPT !.stage = st, !.scenario = sc, !.cluster_id = id,
                         !.error_message = msg, !.tenant_id = "ten_1"] :
        st \in Stages, sc \in { "new", "existing" }, id \in { "", "cl_1", None },
        msg \in { "", "error text" } }

FileInputs ==
    { Absent,
      [ kind |-> "text", doc |-> NoDoc ],
      [ kind |-> "other_json", doc |-> NoDoc ],
      [ kind |-> "undecodable", doc |-> NoDoc ] }
    \cup { FileOf(s) : s \in SavedStates }
    \cup { [ kind |-> "object", doc |-> [to_dict(s) EXCEPT !.stage = raw] ] :
             s \in { x \in SavedStates : x.stage = "NOT_STARTED" /\ x.cluster_id # None },
             raw \in LegacyNames \cup { "bogus", "stage_9_done", NoKey } }

InitLoad ==
    /\ file \in FileInputs
    /\ state = FreshState
    /\ pc = "off"
    /\ dry = FALSE
    /\ dry_run = FALSE
    /\ runs = 0
    /\ polls = 0
    /\ issued = NoneIssued
    /\ created = FALSE
    /\ acted = {}
    /\ runStart = "none"
    /\ probe = "none"
    /\ step = "Init"
    /\ prevEnded = "none"
    /\ ret = "none"
    /\ ended = "none"
    /\ loadResult = "none"
    /\ seen = "none"
    /\ log = << >>
    /\ clean = TRUE
    /\ waited = NoWait
    /\ TesterOff
    /\ UninstallerOff
    /\ ToolsOff

NextLoad ==
    \/ \E d \in BOOLEAN : StartProcess(FALSE, d)
    \/ Kill

SpecLoad == InitLoad /\ [][NextLoad]_vars

(***************************************************************************)
(* Claims                                                                  *)
(***************************************************************************)
\* the persisted stage marker: the stage the state file holds (a directory
\* without a state file holds NOT_STARTED)
PersistedStage == StageOfValue(file.doc.stage)

\* the stage whose mutating action a command is, as an index of DeploymentStage
CommandStage(c) ==
    CASE c \in { "tofu_init", "tofu_apply_parallelcluster" } -> 1
      [] c = "pcluster_create_cluster" -> 2
      [] c = "tofu_apply_connectivity" -> 4
      [] c = "ssm_setup" -> 5
      [] c = "ssm_verify" -> 6
      [] c = "tofu_apply_events" -> 7
      [] c = "register_post" -> 8

\* the body that does the work a persisted marker names as next
ResumeBody(marker) ==
    CASE marker \in { "NOT_STARTED", "STAGE_1A_GENERATE_CONFIG" } -> "stage_1"
      [] marker = "STAGE_1B_PCLUSTER_PENDING" -> "stage_2_create"
      [] marker \in { "STAGE_1C_PCLUSTER_COMPLETE", "STAGE_2A_CONNECTIVITY" } ->
            "stage_3_connect"
      [] marker = "STAGE_2B_CONFIGURE_SLURMRESTD" -> "stage_3_configure"
      [] marker = "STAGE_2C_VERIFY_SLURMRESTD" -> "stage_3_verify"
      [] marker = "STAGE_3A_EVENTS" -> "stage_events"
      [] marker = "STAGE_4A_REGISTER" -> "stage_register"
      [] OTHER -> "off"

\* C1 (Resumability): a run() entered on a persisted marker other than FAILED
\* starts with the body of the stage the marker names, and issues no command
\* of a stage before it: the mutating action of a stage whose success was
\* persisted is not issued again.
Resumability ==
    runStart \notin { "none", "FAILED" } =>
        /\ \A c \in acted : CommandStage(c) >= StageIndex(runStart)
        /\ step = "Run" => pc = ResumeBody(runStart)

\* C1 witness: a process was killed with CLUSTER_COMPLETE persisted, the next
\* one resumed with the connectivity apply, and create-cluster ran once.
ResumabilityWitness ==
    /\ prevEnded = "killed"
    /\ runStart = "STAGE_1C_PCLUSTER_COMPLETE"
    /\ "tofu_apply_connectivity" \in acted
    /\ issued["pcluster_create_cluster"] = 1

\* C2 (at most one create): in one deployment pcluster create-cluster is
\* issued at most once, whatever the status probe answers.  Stated for the
\* issue that was accepted (one that was refused created nothing): once a
\* create-cluster was accepted, no further one is issued until clear()
\* ends the deployment.
CreateAtMostOnce ==
    [][created /\ created' =>
          issued'["pcluster_create_cluster"] = issued["pcluster_create_cluster"]]_vars

\* C3 (idempotent re-entry): when the probe of the creation body answers
\* CREATE_COMPLETE, create-cluster is not called, CLUSTER_COMPLETE is
\* persisted and the connectivity body is next; when it answers
\* CREATE_IN_PROGRESS, create-cluster is not called and the wait is next.
IdempotentReentry ==
    (step = "RunStage2Create" /\ probe \in { "CREATE_COMPLETE", "CREATE_IN_PROGRESS" }) =>
        /\ "pcluster_create_cluster" \notin acted
        /\ probe = "CREATE_COMPLETE" =>
              /\ pc = "stage_3_connect"
              /\ state.stage = "STAGE_1C_PCLUSTER_COMPLETE"
              /\ file = save(state)
        /\ probe = "CREATE_IN_PROGRESS" => pc = "stage_2_wait"

\* C3 witness: the creation body found the cluster complete and went on.
IdempotentReentryWitness ==
    /\ step = "RunStage2Create"
    /\ probe = "CREATE_COMPLETE"
    /\ pc = "stage_3_connect"

\* C4 (dry run has no side effects): a process started with --dry-run issues
\* no external command.
DryRunNoSideEffects == dry => acted = {}

\* a change of the persisted marker that is neither clear(), nor a retry
\* from FAILED, nor set_failed
MarkerChange ==
    /\ file'.doc.stage # file.doc.stage
    /\ file'.kind = "object"
    /\ file.doc.stage # "failed"
    /\ file'.doc.stage # "failed"

StageBodySteps ==
    { "RunStage1", "RunStage2Create", "RunStage2Wait", "RunStage3Connect",
      "RunStage3Configure", "ManualPrompt", "SsmSetupPoll", "RunStage3Verify", "VerifyPoll",
      "RunStageEvents", "RunStageRegister" }

\* C6 (a run ends in a terminal marker): when a stage body makes a non-dry
\* run() return, True leaves COMPLETE persisted and False leaves FAILED
\* persisted with a reason.
RunEndsTerminal ==
    (step \in StageBodySteps /\ pc = "off" /\ ~dry) =>
        /\ ret = "true" => PersistedStage = "COMPLETE"
        /\ ret = "false" => /\ PersistedStage = "FAILED"
                            /\ file.doc.error_message # ""

\* C7 (FAILED has a message): a persisted FAILED stage comes with a
\* non-empty error_message.
FailedHasMessage ==
    PersistedStage = "FAILED" => Truthy(file.doc.error_message)

\* C8 (COMPLETE has the outputs): a persisted COMPLETE stage with a tenant
\* comes with every output REGISTER requires.
CompleteHasOutputs ==
    (PersistedStage = "COMPLETE" /\ Truthy(file.doc.tenant_id)) =>
        /\ Truthy(file.doc.head_node_instance_id)
        /\ Truthy(file.doc.slurm_jwt_secret_arn)
        /\ Truthy(file.doc.lattice_service_endpoint)
        /\ Truthy(file.doc.lattice_service_network_id)
        /\ Truthy(file.doc.iam_role_arn)
        /\ Truthy(file.doc.iam_external_id)
        /\ Truthy(file.doc.cluster_id)

\* a JSON object whose stage is neither a stage identifier nor an old name
UnknownStage(f) ==
    /\ f.kind = "object"
    /\ f.doc.stage # NoKey
    /\ f.doc.stage \notin LegacyNames
    /\ ~IsStageValue(f.doc.stage)

\* C9 (corruption tolerance): constructing the StateManager over a file with
\* an unknown stage string does not raise and gives a fresh NOT_STARTED state.
UnknownStageStartsFresh ==
    (step = "StartProcess" /\ UnknownStage(file)) =>
        /\ loadResult = "fresh"
        /\ state = FreshState
        /\ pc = "main"

\* C10 (load): over no file or a file that is not valid JSON the load gives a
\* fresh state and does not raise; over a saved state it gives that state.
LoadFreshOrSaved ==
    step = "StartProcess" =>
        /\ file.kind \in { "absent", "text", "undecodable" } =>
              /\ loadResult = "fresh"
              /\ state = FreshState
              /\ pc = "main"
        /\ (\E s \in SavedStates : file = FileOf(s)) =>
              /\ loadResult = "loaded"
              /\ file = FileOf(state)

\* C11 (atomic save): after a process was killed, the state file is absent
\* or holds a complete state, the one persisted before the save or the new
\* one; a partly written document is never there.
AtomicSave == ended = "killed" => file.kind \in { "absent", "object" }

\* what a StateManager constructed now would load is exactly s
LoadGives(s) == \A r \in _load(file) : r.exc = "none" /\ r.state = s

\* the steps after which run() has returned with the state it last held
ReturningSteps == StageBodySteps \cup { "Run", "RaiseException", "KeyboardInterrupt" }

\* C12 (durability after return): while the process runs, and when run() has
\* returned, a load of the state file gives the state the StateManager
\* holds, field by field; after clear() the file is absent and the state
\* fresh.
Durability ==
    /\ (pc # "off" \/ step \in ReturningSteps) => LoadGives(state)
    /\ (step = "MainResume" /\ pc = "gather") => file = Absent /\ state = FreshState

\* C12 witness: set_failed returned and the file holds the FAILED state
DurabilityWitness ==
    /\ step = "RunStage3Connect"
    /\ state.stage = "FAILED"
    /\ state.error_message = "tofu apply (connectivity) failed"
    /\ file = FileOf(state)

\* C13 (cancellation is a resumable pause): a KeyboardInterrupt inside run()
\* makes run() return False and leaves the state file as it was: no FAILED
\* stage, no new error_message.
CancellationPauses ==
    [][step' = "KeyboardInterrupt" => file' = file /\ ret' = "false"]_vars

\* how often run() issued the command c since it was entered
Times(c) == Cardinality({ i \in DOMAIN log : log[i] = c })

\* the steps in which _run_stage_3_configure can fail
ConfigureSteps == { "RunStage3Configure", "ManualPrompt", "SsmSetupPoll" }

\* C14 (rollback ordering): when CONFIGURE_DAEMON has failed with the
\* outputs of CONNECTIVITY stored, run() has issued the dissociation of the
\* service from the network and then the destroy, once each.
RollbackInOrder ==
    (/\ step \in ConfigureSteps
     /\ ~dry
     /\ ret = "false"
     /\ state.stage = "FAILED"
     /\ Truthy(state.lattice_service_endpoint)) =>
        /\ Times("dissociate_service_network") = 1
        /\ Times("tofu_destroy") = 1
        /\ \E i, j \in DOMAIN log :
              /\ i < j
              /\ log[i] = "dissociate_service_network"
              /\ log[j] = "tofu_destroy"

\* C15 (bounded command wait): the wait for the setup command gives up
\* with a failure after a fixed number of polls: it is not still waiting
\* when MaxPolls polls have answered Pending or InProgress.
SetupWaitBounded == pc = "ssm_setup_wait" => polls < MaxPolls

\* C16 (command-wait exhaustion is a failure): when the verification loop
\* has used up its VerifyTicks polls without a Success, or the submission
\* or a poll raised, run() returns False and EVENTS is not persisted.
VerifyExhaustionFails ==
    (/\ step \in { "RunStage3Verify", "VerifyPoll" }
     /\ pc # "verify_wait"
     /\ seen \in { "Pending", "InProgress", "exception" }) =>
        /\ ret = "false"
        /\ pc = "off"
        /\ PersistedStage # "STAGE_3A_EVENTS"

\* the stack statuses that say the creation has failed
FailedStackStatuses ==
    { "CREATE_FAILED", "ROLLBACK_IN_PROGRESS", "ROLLBACK_COMPLETE", "ROLLBACK_FAILED" }

\* C17 (cluster-status wait outcomes): a poll of the wait goes on to the
\* next stage exactly when the stack reports CREATE_COMPLETE, and ends the
\* run with FAILED persisted as soon as the stack reports a failed or
\* rollback status; it waits on only for other answers.
WaitOutcomes ==
    step = "RunStage2Wait" =>
        /\ pc = "stage_3_connect" <=> seen = "CREATE_COMPLETE"
        /\ seen \in FailedStackStatuses =>
              /\ pc = "off"
              /\ ret = "false"
              /\ PersistedStage = "FAILED"

\* the stage actions of a deployment of a new cluster, in stage order
FreshRunActions ==
    << "tofu_init", "tofu_apply_parallelcluster", "pcluster_create_cluster",
       "tofu_apply_connectivity", "ssm_setup", "ssm_verify", "tofu_apply_events",
       "register_post" >>

\* C18 (fresh-run scenario): the first run() in a fresh directory, for a new
\* cluster with a tenant, not dry, in which every external action succeeded,
\* has issued every stage action once and in stage order, and has persisted
\* COMPLETE with every output field set.
FreshRunCompletes ==
    (/\ step = "RunStageRegister"
     /\ prevEnded = "none"
     /\ runStart = "NOT_STARTED"
     /\ ~dry
     /\ clean
     /\ state.scenario = "new"
     /\ Truthy(state.tenant_id)) =>
        /\ ret = "true"
        /\ PersistedStage = "COMPLETE"
        /\ log = FreshRunActions
        /\ Truthy(file.doc.pcluster_config_path)
        /\ Truthy(file.doc.head_node_instance_id)
        /\ Truthy(file.doc.slurm_jwt_secret_arn)
        /\ Truthy(file.doc.lattice_service_endpoint)
        /\ Truthy(file.doc.lattice_service_network_id)
        /\ Truthy(file.doc.iam_role_arn)
        /\ Truthy(file.doc.iam_external_id)
        /\ Truthy(file.doc.cluster_id)

\* C19 (postcondition before advance): outside a dry run the persisted
\* marker moves from CONFIGURE_DAEMON to VERIFY_DAEMON only in the step in
\* which the setup command reported Success, and from VERIFY_DAEMON to
\* EVENTS only in the step in which the verification found the port
\* listening.
PostconditionBeforeAdvance ==
    [][~dry_run =>
          /\ (/\ PersistedStage = "STAGE_2B_CONFIGURE_SLURMRESTD"
              /\ PersistedStage' = "STAGE_2C_VERIFY_SLURMRESTD") =>
                 (step' = "SsmSetupPoll" /\ seen' = "Success")
          /\ (/\ PersistedStage = "STAGE_2C_VERIFY_SLURMRESTD"
              /\ PersistedStage' = "STAGE_3A_EVENTS") =>
                 (step' = "VerifyPoll" /\ seen' = "Success listening")]_vars

\* C20 (save before proceed): in a process that is not a dry run, whenever
\* a stage body issues an external command, the state file already holds
\* everything the StateManager holds, the outputs of the stages before
\* included, and its marker names this body.
SaveBeforeProceed ==
    [][(~dry /\ Len(log') > Len(log)) =>
          /\ file = FileOf(state)
          /\ ResumeBody(PersistedStage) = pc]_vars

\* C20 witness: the connectivity apply was issued in the run that created
\* the cluster, after CLUSTER_COMPLETE had been persisted.
SaveBeforeProceedWitness ==
    /\ step = "RunStage3Connect"
    /\ ~dry
    /\ runStart = "NOT_STARTED"
    /\ "pcluster_create_cluster" \in acted
    /\ "tofu_apply_connectivity" \in acted
    /\ PersistedStage = "STAGE_2B_CONFIGURE_SLURMRESTD"

(***************************************************************************)
(* Retry from FAILED                                                       *)
(***************************************************************************)
\* the resume point by output fields: registration id, then the
\* connectivity outputs, then the generated-config path
ResumePoint(s) ==
    IF Truthy(s.cluster_id) THEN "STAGE_3A_EVENTS"
    ELSE IF Truthy(s.lattice_service_endpoint) THEN "STAGE_2A_CONNECTIVITY"
    ELSE IF Truthy(s.pcluster_config_path) THEN "STAGE_1B_PCLUSTER_PENDING"
    ELSE "STAGE_1A_GENERATE_CONFIG"

\* C21: a confirmed retry from FAILED resumes at the events stage when the
\* registration id is present, else at the connectivity stage when the
\* connectivity outputs are present, else at the cluster-creation stage when
\* the generated-config path is present, else at the first stage, and run()
\* continues from that stage.
RetryResumePoint ==
    (step = "Run" /\ runStart = "FAILED" /\ pc # "off")
        => /\ state.stage = ResumePoint(state)
           /\ pc = Dispatch(ResumePoint(state))

(***************************************************************************)
(* The exit status                                                         *)
(***************************************************************************)
\* C22: a process that ended exits with 0 when run() succeeded or the user
\* cancelled at a prompt before run(), and with 1 when run() returned False
\* leaving the persisted stage FAILED.
ExitStatus ==
    ended \in { "returned", "sys.exit(1)", "traceback" } =>
        /\ (ret = "false" /\ PersistedStage = "FAILED") => ExitCode(ended) = 1
        /\ (ret = "true" \/ (ret = "none" /\ ended = "returned"))
               => ExitCode(ended) = 0

(***************************************************************************)
(* Stage names of earlier versions                                         *)
(***************************************************************************)
\* the stage each legacy name stands for
CompatibilityMap(raw) ==
    CASE raw = "stage_1_infra" -> "STAGE_1A_GENERATE_CONFIG"
      [] raw = "stage_2_pcluster_pending" -> "STAGE_1B_PCLUSTER_PENDING"
      [] raw = "stage_2_pcluster_complete" -> "STAGE_1C_PCLUSTER_COMPLETE"
      [] raw = "stage_3_connect" -> "STAGE_2A_CONNECTIVITY"
      [] raw = "stage_3_configure_slurmrestd" -> "STAGE_2B_CONFIGURE_SLURMRESTD"
      [] raw = "stage_3_verify_slurmrestd" -> "STAGE_2C_VERIFY_SLURMRESTD"
      [] raw = "stage_4_register" -> "STAGE_4A_REGISTER"
      [] raw = "stage_5_events" -> "STAGE_3A_EVENTS"

\* C23: a state file whose stage is one of the eight legacy names loads as
\* the stage the compatibility map gives for it; a file whose stage is a
\* current name loads as that stage; and the loaded state, saved, holds a
\* current name only and loads again as the same state.
LegacyStageMigration ==
    (step = "StartProcess" /\ file.kind = "object" /\ file.doc.stage # NoKey
        /\ (file.doc.stage \in LegacyNames \/ IsStageValue(file.doc.stage))) =>
        /\ loadResult = "loaded"
        /\ file.doc.stage \in LegacyNames
              => state.stage = CompatibilityMap(file.doc.stage)
        /\ IsStageValue(file.doc.stage)
              => state.stage = StageOfValue(file.doc.stage)
        /\ IsStageValue(save(state).doc.stage)
        /\ save(state).doc.stage \notin LegacyNames
        /\ _load(save(state)) = { Loaded(state) }

LegacyStageMigrationWitness ==
    /\ step = "StartProcess"
    /\ file.kind = "object"
    /\ file.doc.stage = "stage_5_events"
    /\ state.stage = "STAGE_3A_EVENTS"
    /\ save(state).doc.stage = "3a_events"

(***************************************************************************)
(* test_api_connection.py: the registration POST, the check for a          *)
(* resource-share invitation, and the retry                                *)
(***************************************************************************)
\* the invitations get_resource_share_invitations() can list: it is called
\* without a filter, so invitations of every status, sender and name come back
Invitations ==
    [ status : { "PENDING", "ACCEPTED" },
      senderAccountId : { "clusterra", "other" },
      resourceShareName : { "clusterra-share", "other-share" },
      invitationTimestamp : 1 .. MaxInvites ]

InviteLists == UNION { [ 1 .. n -> Invitations ] : n \in 0 .. MaxInvites }

\* accept_ram_invitation(session): [result, accept]; accept is the position
\* of the invitation whose acceptance went through, 0 when none did.
\* raises names the call of the RAM client that raised, if one did.
accept_ram_invitation(invs, raises) ==
    IF raises = "list" \/ invs = << >>
    THEN [ result |-> FALSE, accept |-> 0 ]
    ELSE IF raises = "accept"
    THEN [ result |-> FALSE, accept |-> 0 ]
    ELSE [ result |-> TRUE, accept |-> 1 ]

\* main up to the POST: the tfvars, the tofu output and the STS token
TestMain(have_tfvars, have_onboarding, sts_ok) ==
    /\ step' = "TestMain"
    /\ tpc = "off"
    /\ report = "none"
    /\ resp = "none"
    /\ tpc' = (IF have_tfvars /\ have_onboarding /\ sts_ok THEN "post" ELSE "returned")
    /\ UNCHANGED << invites, accepted, resp, report >>
    /\ UNCHANGED << installVars, uninstallVars, toolVars >>

TestResponses == { "201", "409", "500", "Timeout", "ConnectionError" }

\* requests.post(..., timeout=30): only Timeout is caught
TestPost(response) ==
    /\ step' = "TestPost"
    /\ tpc = "post"
    /\ resp' = response
    /\ tpc' = (CASE response = "ConnectionError" -> "traceback"
                 [] response \in { "201", "409" } -> "returned"
                 [] OTHER -> "check")
    /\ report' = (IF response \in { "201", "409" } THEN "success" ELSE report)
    /\ UNCHANGED << invites, accepted >>
    /\ UNCHANGED << installVars, uninstallVars, toolVars >>

\* "Checking for pending RAM invitation..."
TestCheck(raises) ==
    /\ step' = "TestCheck"
    /\ tpc = "check"
    /\ LET r == accept_ram_invitation(invites, raises)
       IN  /\ accepted' = (IF r.accept = 0 THEN accepted ELSE accepted \cup { r.accept })
           /\ tpc' = (IF r.result THEN "retry" ELSE "returned")
           /\ report' = (IF r.result THEN report ELSE "failure")
    /\ UNCHANGED << invites, resp >>
    /\ UNCHANGED << installVars, uninstallVars, toolVars >>

\* the second POST (timeout=60); every exception is caught
TestRetry(response) ==
    /\ step' = "TestRetry"
    /\ tpc = "retry"
    /\ report' = (IF response = "201" THEN "success" ELSE "failure")
    /\ tpc' = "returned"
    /\ UNCHANGED << invites, accepted, resp >>
    /\ UNCHANGED << installVars, uninstallVars, toolVars >>

InitTest ==
    /\ InstallerFresh
    /\ UninstallerOff
    /\ ToolsOff
    /\ tpc = "off"
    /\ invites \in InviteLists
    /\ accepted = {}
    /\ resp = "none"
    /\ report = "none"

NextTest ==
    \/ \E have_tfvars \in BOOLEAN, have_onboarding \in BOOLEAN, sts_ok \in BOOLEAN :
          TestMain(have_tfvars, have_onboarding, sts_ok)
    \/ \E response \in TestResponses : TestPost(response)
    \/ \E raises \in { "none", "list", "accept" } : TestCheck(raises)
    \/ \E response \in TestResponses : TestRetry(response)

SpecTest == InitTest /\ [][NextTest]_vars

(***************************************************************************)
(* Acceptance of resource-share invitations                                *)
(***************************************************************************)
\* the listed invitation at position i is pending and is this deployment's
Matching(i) ==
    /\ invites[i].status = "PENDING"
    /\ invites[i].senderAccountId = "clusterra"
    /\ invites[i].resourceShareName = "clusterra-share"

\* C24: an invitation is accepted only if it is pending and from the
\* expected sender with the expected resource-share name, and among several
\* such invitations only the most recent one is accepted.
AcceptanceFilter ==
    \A i \in accepted :
        /\ Matching(i)
        /\ \A j \in DOMAIN invites :
              Matching(j) => invites[j].invitationTimestamp <= invites[i].invitationTimestamp

(***************************************************************************)
(* A registration POST that times out                                      *)
(***************************************************************************)
\* C25: when the registration POST of the installer times out, the
\* resource-share state is checked before run() reports the registration as
\* succeeded or failed.
TimeoutChecksShare ==
    (step = "RunStageRegister" /\ seen = "Timeout" /\ ret # "none")
        => "get_resource_share_invitations" \in acted

(***************************************************************************)
(* uninstall.py                                                            *)
(***************************************************************************)
ClusterNames == { "c1", "c2" }
ClusterIds == { "clus0001", "clus0002" }

\* the command lines; cluster_name "" is an absent --cluster-name
ArgSets == [ cluster_name : { "" } \cup ClusterNames, force : BOOLEAN, dry_run : BOOLEAN ]

\* load_tfvars() with .get(key, ""): no file, or a file naming cluster c1
\* with or without a cluster_id line
TfvarsInputs ==
    { NoTfvars }
    \cup [ cluster_name : { "c1" }, cluster_id : { "", "clus0001" }, exists : { TRUE } ]

\* a guard that lets every target pass for the active one
AlwaysMatch(default_name, name) == TRUE

\* default_name == cluster_name
tofu_match(default_name, name) == default_name = name

\* a guard that never finds a mismatch
NeverMismatch(match, entered, default_id) == FALSE

\* tofu_match and confirm_id != default_id
Mismatch(match, entered, default_id) == match /\ entered # default_id

\* the target is known: the confirmation comes next unless --force
AfterName == IF args.force THEN "delete" ELSE "confirm"

\* main up to the first prompt
UninstallMain(has_region) ==
    /\ step' = "UninstallMain"
    /\ upc = "off"
    /\ IF ~has_region
       THEN /\ upc' = "exit 1"
            /\ UNCHANGED cluster_name
       ELSE IF args.cluster_name # ""
       THEN /\ cluster_name' = args.cluster_name
            /\ upc' = AfterName
       ELSE /\ upc' = "name_prompt"
            /\ UNCHANGED cluster_name
    /\ UNCHANGED << args, tfvars, confirm_id, deleted, cfn, did >>
    /\ UNCHANGED << installVars, testVars, toolVars >>

\* "Which cluster NAME would you like to delete?"; None is a cancelled prompt
NamePrompt(answer) ==
    /\ step' = "NamePrompt"
    /\ upc = "name_prompt"
    /\ IF answer = None
       THEN /\ upc' = "exit 0"
            /\ UNCHANGED cluster_name
       ELSE /\ cluster_name' = answer
            /\ upc' = AfterName
    /\ UNCHANGED << args, tfvars, confirm_id, deleted, cfn, did >>
    /\ UNCHANGED << installVars, testVars, toolVars >>

\* "To confirm, please enter the CLUSTER ID"; the validator lets only
\* well-formed ids through, None is a cancelled prompt
ConfirmPrompt(entered) ==
    /\ step' = "ConfirmPrompt"
    /\ upc = "confirm"
    /\ confirm_id' = entered
    /\ upc' = (IF entered = None THEN "exit 0"
               ELSE IF Mismatch(tofu_match(tfvars.cluster_name, cluster_name),
                                entered, tfvars.cluster_id)
               THEN "exit 1"
               ELSE "delete")
    /\ UNCHANGED << args, tfvars, cluster_name, deleted, cfn, did >>
    /\ UNCHANGED << installVars, testVars, toolVars >>

\* what cfn.describe_stacks(StackName=cluster_name) answers: the
\* ValidationError of a stack that does not exist, a ClientError of another
\* kind while the stack exists (throttling, an expired token), or the
\* status of the stack
CfnAnswers ==
    { "ValidationError", "Throttling", "CREATE_COMPLETE", "DELETE_IN_PROGRESS",
      "DELETE_COMPLETE", "DELETE_FAILED" }

\* get_pcluster_status: every ClientError reads as NOT_FOUND
get_pcluster_status(answer) ==
    IF answer \in { "ValidationError", "Throttling" } THEN "NOT_FOUND" ELSE answer

\* delete_pcluster up to the wait loop, and what main does with a result
DeletePcluster(answer, rc_ok) ==
    /\ step' = "DeletePcluster"
    /\ upc = "delete"
    /\ cfn' = answer
    /\ IF get_pcluster_status(answer) = "NOT_FOUND" \/ args.dry_run
       THEN /\ deleted' = "True"
            /\ upc' = "destroy"
            /\ UNCHANGED did
       ELSE /\ did' = Append(did, "pcluster delete-cluster")
            /\ IF rc_ok
               THEN /\ upc' = "delete_wait"
                    /\ UNCHANGED deleted
               ELSE /\ deleted' = "False"
                    /\ upc' = "exit 1"
    /\ UNCHANGED << args, tfvars, cluster_name, confirm_id >>
    /\ UNCHANGED << installVars, testVars, toolVars >>

\* one tick of delete_pcluster's wait loop
DeleteWait(answer) ==
    /\ step' = "DeleteWait"
    /\ upc = "delete_wait"
    /\ cfn' = answer
    /\ IF get_pcluster_status(answer) \in { "NOT_FOUND", "DELETE_COMPLETE" }
       THEN /\ deleted' = "True"
            /\ upc' = "destroy"
       ELSE IF get_pcluster_status(answer) = "DELETE_FAILED"
       THEN /\ deleted' = "False"
            /\ upc' = "exit 1"
       ELSE UNCHANGED << deleted, upc >>
    /\ UNCHANGED << args, tfvars, cluster_name, confirm_id, did >>
    /\ UNCHANGED << installVars, testVars, toolVars >>

\* main after delete_pcluster returned True: destroy_tofu_resources and the
\* removal of generated/ and of the tfstate files that exist
DestroyTofu(have_tfstate) ==
    /\ step' = "DestroyTofu"
    /\ upc = "destroy"
    /\ did' = (IF tofu_match(tfvars.cluster_name, cluster_name) /\ ~args.dry_run
               THEN did \o << "tofu destroy", "rmtree generated" >>
                        \o (IF have_tfstate THEN << "remove tfstate" >> ELSE << >>)
               ELSE did)
    /\ upc' = "exit 0"
    /\ UNCHANGED << args, tfvars, cluster_name, confirm_id, deleted, cfn >>
    /\ UNCHANGED << installVars, testVars, toolVars >>

\* Ctrl-C or an exception inside delete_pcluster: nothing catches it
UninstallInterrupt ==
    /\ step' = "UninstallInterrupt"
    /\ upc \in { "delete", "delete_wait" }
    /\ upc' = "traceback"
    /\ UNCHANGED << args, tfvars, cluster_name, confirm_id, deleted, cfn, did >>
    /\ UNCHANGED << installVars, testVars, toolVars >>

InitUninstall ==
    /\ InstallerFresh
    /\ TesterOff
    /\ ToolsOff
    /\ upc = "off"
    /\ args \in ArgSets
    /\ tfvars \in TfvarsInputs
    /\ cluster_name = ""
    /\ confirm_id = "none"
    /\ deleted = "none"
    /\ cfn = "none"
    /\ did = << >>

NextUninstall ==
    \/ \E has_region \in BOOLEAN : UninstallMain(has_region)
    \/ \E answer \in ClusterNames \cup { None } : NamePrompt(answer)
    \/ \E entered \in ClusterIds \cup { None } : ConfirmPrompt(entered)
    \/ \E answer \in CfnAnswers, rc_ok \in BOOLEAN : DeletePcluster(answer, rc_ok)
    \/ \E answer \in CfnAnswers : DeleteWait(answer)
    \/ \E have_tfstate \in BOOLEAN : DestroyTofu(have_tfstate)
    \/ UninstallInterrupt

SpecUninstall == InitUninstall /\ [][NextUninstall]_vars

(***************************************************************************)
(* Order and scope of the uninstall                                        *)
(***************************************************************************)
\* what the uninstaller does to the Tofu resources and files
TofuActions == { "tofu destroy", "rmtree generated", "remove tfstate" }

Removed == { did[i] : i \in DOMAIN did } \cap TofuActions

\* C26: tofu destroy and the removal of generated/ and the tfstate files
\* happen only if the tfvars cluster_name equals the target name and only
\* after delete_pcluster returned True, and never before the delete-cluster
\* call; when delete_pcluster returned False the process exits with 1 and
\* none of them happened.
UninstallOrder ==
    /\ Removed # {} => /\ tfvars.cluster_name = cluster_name
                       /\ deleted = "True"
    /\ \A i, j \in DOMAIN did :
          (did[i] = "pcluster delete-cluster" /\ did[j] \in TofuActions) => i < j
    /\ deleted = "False" => /\ upc = "exit 1"
                            /\ Removed = {}

UninstallOrderWitness ==
    /\ upc = "exit 0"
    /\ did = << "pcluster delete-cluster", "tofu destroy", "rmtree generated",
                "remove tfstate" >>

\* C27: without --force, when the tfvars cluster_name equals the target name
\* and the entered cluster id differs from the tfvars cluster_id, the process
\* exits with 1 and has done nothing destructive; a cancelled confirmation
\* exits with 0, also with nothing done.
ConfirmationGuard ==
    /\ (/\ ~args.force
        /\ confirm_id \in ClusterIds
        /\ tfvars.cluster_name = cluster_name
        /\ confirm_id # tfvars.cluster_id)
          => /\ upc = "exit 1"
             /\ did = << >>
    /\ confirm_id = None => /\ upc = "exit 0"
                            /\ did = << >>

ConfirmationGuardWitness ==
    /\ step = "ConfirmPrompt"
    /\ ~args.force
    /\ tfvars.cluster_name = cluster_name
    /\ confirm_id = "clus0002"
    /\ tfvars.cluster_id = "clus0001"
    /\ upc = "exit 1"

(***************************************************************************)
(* Outputs of the stages                                                   *)
(***************************************************************************)
\* C28: the connectivity module is applied only with a known head node, and
\* a creation body entered without the generated-config path ends the run
\* in FAILED.
StagePreconditions ==
    /\ (step = "RunStage3Connect" /\ "tofu_apply_connectivity" \in acted)
          => Truthy(state.head_node_instance_id)
    /\ (step = "RunStage2Create" /\ ~Truthy(state.pcluster_config_path))
          => /\ PersistedStage = "FAILED"
             /\ ret = "false"

\* the fields the stages record their outputs in
OutputFields ==
    { "pcluster_config_path", "lattice_service_endpoint", "lattice_service_network_id",
      "iam_role_arn", "iam_external_id", "cluster_id" }

\* C29: as long as the state file is not cleared, an output field that
\* holds a non-empty value keeps that value through every later save.
WriteOnceOutputs ==
    [][ (file.kind = "object" /\ file'.kind = "object")
          => \A f \in OutputFields :
                Truthy(file.doc[f]) => file'.doc[f] = file.doc[f] ]_vars

\* the connectivity stage has recorded all of its outputs
ConnectivityRecorded(s) ==
    /\ Truthy(s.lattice_service_endpoint)
    /\ Truthy(s.lattice_service_network_id)
    /\ Truthy(s.iam_role_arn)
    /\ Truthy(s.iam_external_id)

\* C30: a connectivity body entered with its four outputs recorded, and a
\* first-stage body entered with the config path recorded, issue no command
\* and leave the recorded outputs as they are.
ReentryReusesOutputs ==
    [][ ((\/ pc = "stage_3_connect" /\ ConnectivityRecorded(state)
          \/ pc = "stage_1" /\ Truthy(state.pcluster_config_path))
         /\ step' \in { "RunStage1", "RunStage3Connect", "KillAfterUpdate" })
          => /\ log' = log
             /\ \A f \in OutputFields : file'.doc[f] = state[f] ]_vars

(***************************************************************************)
(* The cluster-status wait                                                 *)
(***************************************************************************)
\* C31: when the probe answered k times without a terminal status and then
\* CREATE_COMPLETE, the wait has made k+1 probes and slept k times 30 seconds
\* when it persists the completed stage.
PollCount ==
    [][ (step' = "RunStage2Wait" /\ probe' = "CREATE_COMPLETE")
          => /\ waited'.probes = polls + 1
             /\ waited'.slept = 30 * polls
             /\ file' = save(state')
             /\ state'.stage = "STAGE_1C_PCLUSTER_COMPLETE" ]_vars

PollCountWitness ==
    /\ step = "RunStage2Wait"
    /\ probe = "CREATE_COMPLETE"
    /\ waited = [ probes |-> 4, slept |-> 90 ]
    /\ state.stage = "STAGE_1C_PCLUSTER_COMPLETE"

(***************************************************************************)
(* FAILED                                                                  *)
(***************************************************************************)
\* the state file holds stage FAILED
Failed(f) == f.kind = "object" /\ f.doc.stage = "failed"

\* C32: a step of run() that leaves the persisted stage FAILED ends the
\* call with False, so that no stage body, command or set_stage follows it
\* in that call; and the persisted stage leaves FAILED only in the retry at
\* the start of run() or when the state is cleared.
FailedAbsorbing ==
    [][ /\ (Failed(file') /\ pc \in RunPcs)
            => /\ pc' = "off"
               /\ ended' \in { "killed", "returned" }
               /\ ended' = "returned" => ret' = "false"
        /\ (Failed(file) /\ ~Failed(file'))
            => \/ pc = "run" /\ step' \in { "Run", "CrashInSave" }
               \/ file' = Absent ]_vars

FailedAbsorbingWitness ==
    /\ step = "Run"
    /\ runStart = "FAILED"
    /\ prevEnded = "returned"
    /\ pc \in RunPcs \ { "run" }
    /\ ~Failed(file)

\* C33: for a FAILED state about to be retried, the stage main announces
\* after "Will retry from:" is the stage the retry sets and runs from.
AnnouncedIsReal ==
    (pc = "run" /\ step = "MainResume" /\ state.stage = "FAILED")
        => retry_stage(state) = RetryStage(state)

(***************************************************************************)
(* The existing-cluster scenario                                           *)
(***************************************************************************)
\* C34: a deployment of scenario 'existing' never persists
\* STAGE_1B_PCLUSTER_PENDING or STAGE_1C_PCLUSTER_COMPLETE, never is in the
\* creation or wait body, and never issues pcluster create-cluster.
ExistingNeverCreates ==
    /\ (file.kind = "object" /\ file.doc.scenario = "existing")
          => file.doc.stage \notin { "1b_pcluster_pending", "1c_pcluster_complete" }
    /\ state.scenario = "existing"
          => /\ pc \notin { "stage_2_create", "stage_2_wait" }
             /\ "pcluster_create_cluster" \notin acted

ExistingNeverCreatesWitness ==
    /\ step = "Run"
    /\ runStart = "FAILED"
    /\ state.scenario = "existing"
    /\ Truthy(state.pcluster_config_path)
    /\ pc = "stage_3_connect"

(***************************************************************************)
(* The registration stage                                                  *)
(***************************************************************************)
\* C35: a registration body that made the POST persists COMPLETE and
\* returns True whatever came back, and writes cluster_id exactly when the
\* status was 201.
RegisterAlwaysCompletes ==
    [][ (step' = "RunStageRegister" /\ seen' # "none")
          => /\ file' = save(state')
             /\ state'.stage = "COMPLETE"
             /\ ret' = "true"
             /\ seen' \in { "500", "Timeout", "RequestException" }
                   => state'.cluster_id = state.cluster_id
             /\ seen' = "201 cluster_id" => state'.cluster_id = "cl_1" ]_vars

(***************************************************************************)
(* The wait for the deletion of the stack                                  *)
(***************************************************************************)
\* C36: a tick of the delete wait makes delete_pcluster return True only
\* when the stack is gone (it does not exist or is DELETE_COMPLETE), return
\* False on DELETE_FAILED, and poll on otherwise; an error of the status
\* query while the stack exists does not end the wait with True.
DeleteWaitOutcome ==
    step = "DeleteWait" =>
        /\ deleted = "True" => cfn \in { "ValidationError", "DELETE_COMPLETE" }
        /\ cfn = "DELETE_FAILED" => deleted = "False"
        /\ cfn \in { "Throttling", "CREATE_COMPLETE", "DELETE_IN_PROGRESS" }
              => /\ deleted = "none"
                 /\ upc = "delete_wait"


(***************************************************************************)
(* event_forwarder.py: the Lambda that forwards local events to the SaaS   *)
(* event bus                                                               *)
(***************************************************************************)
InstanceIds == { "i-head", "i-node" }

\* the sources an event arrives with: the Slurm hook, the four infrastructure
\* providers, and one the forwarder does not handle
EventSources ==
    { "clusterra.slurm", "aws.ec2", "aws.autoscaling", "aws.ec2fleet",
      "aws.ec2spotfleet", "aws.s3" }

\* the first element of detail["instances"]: an object or a plain string
InstanceEntries ==
    [ kind : { "dict" }, instanceId : InstanceIds \cup { None } ]
    \cup [ kind : { "str" }, instanceId : InstanceIds ]

\* the shapes of an event's detail the forwarder looks into
Details ==
    [ instance_id : InstanceIds \cup { None },
      EC2InstanceId : InstanceIds \cup { None },
      instances : { << >> } \cup { << e >> : e \in InstanceEntries } ]

\* what describe_tags gives for the instance: the values of its
\* parallelcluster:cluster-name tags, or an exception
TagAnswers == { "demo", "other", "no tags", "exception" }

\* what put_events gives
PutAnswers == { "ok", "failed entries", "exception" }

AlwaysClusterInstance(CLUSTER_NAME, tag_answer) == TRUE

_is_infra_event(source) ==
    source \in { "aws.ec2", "aws.autoscaling", "aws.ec2fleet", "aws.ec2spotfleet" }

_extract_instance_id(detail) ==
    IF Truthy(detail.instance_id) THEN detail.instance_id
    ELSE IF Truthy(detail.EC2InstanceId) THEN detail.EC2InstanceId
    ELSE IF detail.instances # << >> THEN detail.instances[1].instanceId
    ELSE None

_is_cluster_instance(CLUSTER_NAME, tag_answer) ==
    IF tag_answer = "exception" THEN FALSE
    ELSE IF ~Truthy(CLUSTER_NAME) THEN FALSE
    ELSE tag_answer \notin { "no tags" } /\ tag_answer = CLUSTER_NAME

Skipped(reason) ==
    [ status |-> "skipped", reason |-> reason, source |-> None,
      detail_type |-> << >>, puts |-> 0 ]

\* the forward step of the handler: one put_events call, then the check of
\* FailedEntryCount
Forward(fwd_source, fwd_detail_type, put_answer) ==
    IF put_answer = "ok"
    THEN [ status |-> "forwarded", reason |-> None, source |-> fwd_source,
           detail_type |-> fwd_detail_type, puts |-> 1 ]
    ELSE [ status |-> "raised", reason |-> put_answer, source |-> fwd_source,
           detail_type |-> fwd_detail_type, puts |-> 1 ]

\* handler(event, context) of the forwarder; a detail-type is the sequence of
\* its dot-separated parts
forwarder_handler(e) ==
    IF e.source = "clusterra.slurm"
    THEN Forward("clusterra.slurm", << e.detail_type >>, e.put)
    ELSE IF _is_infra_event(e.source)
    THEN LET instance_id == _extract_instance_id(e.detail)
             resource_type ==
                 IF instance_id = e.HEAD_NODE_INSTANCE_ID THEN "cluster" ELSE "node"
         IN  IF ~Truthy(instance_id) THEN Skipped("no_instance_id")
             ELSE IF ~_is_cluster_instance(e.CLUSTER_NAME, e.tags)
             THEN Skipped("tag_mismatch")
             ELSE Forward("clusterra.infra", << resource_type, e.detail_type >>, e.put)
    ELSE Skipped("unhandled_source")

ForwarderInputs ==
    [ status : { "event" },
      source : EventSources,
      detail_type : { "EC2 Instance State-change Notification" },
      detail : Details,
      CLUSTER_NAME : { "demo", None },
      HEAD_NODE_INSTANCE_ID : { "i-head", None },
      tags : TagAnswers,
      put : PutAnswers ]

ForwarderInvoke ==
    /\ fwd_out = NoInvocation
    /\ fwd_out' = forwarder_handler(fwd_in)
    /\ UNCHANGED << fwd_in, shipperVars, diagnoseVars, installVars, step,
                    testVars, uninstallVars >>

ForwarderOff ==
    /\ fwd_in = NoInvocation
    /\ fwd_out = NoInvocation

ShipperOff ==
    /\ ship_in = NoInvocation
    /\ ship_out = NoInvocation

DiagnoseOff ==
    /\ ssm_pc = "off"
    /\ ssm_polls = 0
    /\ ssm_slept = 0
    /\ ssm_out = NoInvocation

InitForwarder ==
    /\ InstallerFresh
    /\ TesterOff
    /\ UninstallerOff
    /\ ShipperOff
    /\ DiagnoseOff
    /\ fwd_in \in ForwarderInputs
    /\ fwd_out = NoInvocation

NextForwarder == ForwarderInvoke

SpecForwarder == InitForwarder /\ [][NextForwarder]_vars

\* the event qualifies for forwarding: it comes from the Slurm hook, or it is
\* an infrastructure event naming an instance whose cluster-name tag is
\* CLUSTER_NAME
Qualifies(e) ==
    \/ e.source = "clusterra.slurm"
    \/ /\ e.source \in { "aws.ec2", "aws.autoscaling", "aws.ec2fleet", "aws.ec2spotfleet" }
       /\ \/ e.detail.instance_id # None
          \/ e.detail.EC2InstanceId # None
          \/ e.detail.instances # << >> /\ e.detail.instances[1].instanceId # None
       /\ e.CLUSTER_NAME # None
       /\ e.tags = e.CLUSTER_NAME

\* C37: an event is forwarded only if it comes from clusterra.slurm or is an
\* infrastructure event naming an instance tagged with CLUSTER_NAME; every
\* other event is skipped without a put_events call; a forwarded
\* infrastructure event has its detail-type prefixed "cluster" for the head
\* node and "node" otherwise; failed entries raise instead of reporting
\* success.
ForwarderFilter ==
    fwd_out # NoInvocation =>
        /\ fwd_out.status = "forwarded" => Qualifies(fwd_in)
        /\ ~Qualifies(fwd_in) => fwd_out.status = "skipped" /\ fwd_out.puts = 0
        /\ (fwd_out.status = "forwarded" /\ fwd_in.source # "clusterra.slurm") =>
               /\ fwd_out.source = "clusterra.infra"
               /\ fwd_out.detail_type =
                      << IF _extract_instance_id(fwd_in.detail) = fwd_in.HEAD_NODE_INSTANCE_ID
                         THEN "cluster" ELSE "node",
                         fwd_in.detail_type >>
        /\ (fwd_out.status = "forwarded" /\ fwd_in.source = "clusterra.slurm") =>
               /\ fwd_out.source = "clusterra.slurm"
               /\ fwd_out.detail_type = << fwd_in.detail_type >>
        /\ (fwd_out.puts = 1 /\ fwd_in.put # "ok") => fwd_out.status = "raised"

\* a foreign instance's event was skipped and the head node's was forwarded
\* under the "cluster" prefix
ForwarderFilterWitness ==
    /\ fwd_out # NoInvocation
    /\ fwd_in.source = "aws.ec2"
    /\ fwd_in.detail.instance_id = "i-head"
    /\ fwd_in.tags = "demo"
    /\ fwd_out.status = "forwarded"
    /\ fwd_out.detail_type[1] = "cluster"


(***************************************************************************)
(* lambda/handler.py: the SQS-triggered shipper (modules/cluster-events    *)
(* and modules/events carry the same handler)                              *)
(***************************************************************************)
MaxRecords == 3

\* an event name is the sequence of its dot-separated parts
startswith(event_type, prefix) == Len(event_type) > 1 /\ event_type[1] = prefix

\* the CloudWatch detail-types the shipper knows, and one it does not
DetailTypes ==
    { "EC2 Instance State-change Notification", "EC2 Instance Launch Successful",
      "EC2 Instance Terminate Successful", "EC2 Spot Instance Interruption Warning",
      "EBS Snapshot Notification" }

\* the names of the events the hook sends, one of no table, and a body
\* without "event"
EventNames ==
    { << "job", "started" >>, << "job", "completed" >>, << "node", "launched" >>,
      << "cluster", "state", "started" >>, << "heartbeat" >>, << >> }

\* an SQS record: without "body", with a body that is not JSON, with a JSON
\* body that is no object, a hook event, or a CloudWatch event
Records ==
    [ kind : { "no body", "not json", "list" } ]
    \cup [ kind : { "event" }, event : EventNames ]
    \cup [ kind : { "cloudwatch" }, detail_type : DetailTypes, state : { "running" } ]

ApiAnswers == { "ok", "HTTPError", "timeout" }

transform_cloudwatch_event(cw_event) ==
    CASE cw_event.detail_type = "EC2 Instance State-change Notification" ->
             [ kind |-> "event",
               event |-> CASE cw_event.state = "running" -> << "cluster", "state", "started" >>
                           [] cw_event.state = "stopped" -> << "cluster", "state", "stopped" >>
                           [] cw_event.state = "stopping" -> << "cluster", "state", "stopping" >>
                           [] cw_event.state = "pending" -> << "cluster", "state", "starting" >>
                           [] OTHER -> << "cluster", "state", cw_event.state >> ]
      [] cw_event.detail_type = "EC2 Instance Launch Successful" ->
             [ kind |-> "event", event |-> << "node", "launched" >> ]
      [] cw_event.detail_type = "EC2 Instance Terminate Successful" ->
             [ kind |-> "event", event |-> << "node", "terminated" >> ]
      [] cw_event.detail_type = "EC2 Spot Instance Interruption Warning" ->
             [ kind |-> "event", event |-> << "node", "spot_interrupted" >> ]
      [] OTHER ->
             [ kind |-> "event", event |-> << "unknown", cw_event.detail_type >> ]

transform_job_event(evt) ==
    [ state |-> CASE evt.event = << "job", "started" >> -> "running"
                  [] evt.event = << "job", "completed" >> -> "completed"
                  [] evt.event = << "job", "failed" >> -> "failed"
                  [] evt.event = << "job", "cancelled" >> -> "cancelled"
                  [] evt.event = << "job", "timeout" >> -> "timeout"
                  [] OTHER -> None ]

transform_node_event(evt) ==
    [ ec2_state |-> IF evt.event = << "node", "launched" >> THEN "running" ELSE "terminated" ]

transform_cluster_event(evt) ==
    [ state |-> CASE evt.event = << "cluster", "state", "started" >> -> "running"
                  [] evt.event = << "cluster", "state", "stopped" >> -> "stopped"
                  [] evt.event = << "cluster", "state", "starting" >> -> "starting"
                  [] evt.event = << "cluster", "state", "stopping" >> -> "stopping"
                  [] OTHER -> "unknown" ]

\* the parsing loop: a record without body or with a body that is not JSON
\* is left out, a CloudWatch event is transformed
RECURSIVE ParseRecords(_)
ParseRecords(records) ==
    IF records = << >> THEN << >>
    ELSE LET record == Head(records)
             rest == ParseRecords(Tail(records))
         IN  CASE record.kind \in { "no body", "not json" } -> rest
               [] record.kind = "cloudwatch" -> << transform_cloudwatch_event(record) >> \o rest
               [] OTHER -> << record >> \o rest

\* the updates of one table, in the order of the events
RECURSIVE Updates(_, _)
Updates(events, prefix) ==
    IF events = << >> THEN << >>
    ELSE LET evt == Head(events)
             rest == Updates(Tail(events), prefix)
         IN  IF ~startswith(evt.event, prefix) THEN rest
             ELSE CASE prefix = "job" -> << transform_job_event(evt) >> \o rest
                    [] prefix = "node" -> << transform_node_event(evt) >> \o rest
                    [] prefix = "cluster" -> << transform_cluster_event(evt) >> \o rest

NoTables == [ jobs |-> << >>, nodes |-> << >>, clusters |-> << >> ]

\* the try block around call_clusterra_api mutated to report success whatever
\* the API answers
ShipSwallows(tables, api) ==
    [ status |-> "200", body |-> "response", tables |-> tables, calls |-> 1 ]

\* the try block around call_clusterra_api
Ship(tables, api) ==
    IF api = "ok"
    THEN [ status |-> "200", body |-> "response", tables |-> tables, calls |-> 1 ]
    ELSE [ status |-> "raised", body |-> api, tables |-> tables, calls |-> 1 ]

\* handler(event, context) of the shipper
shipper_handler(records, api) ==
    IF records = << >>
    THEN [ status |-> "200", body |-> "No records", tables |-> NoTables, calls |-> 0 ]
    ELSE LET events == ParseRecords(records)
         IN  IF events = << >>
             THEN [ status |-> "200", body |-> "No valid events",
                    tables |-> NoTables, calls |-> 0 ]
             ELSE IF \E i \in DOMAIN events : events[i].kind = "list"
             THEN [ status |-> "raised", body |-> "AttributeError",
                    tables |-> NoTables, calls |-> 0 ]
             ELSE Ship([ jobs |-> Updates(events, "job"),
                         nodes |-> Updates(events, "node"),
                         clusters |-> Updates(events, "cluster") ], api)

RECURSIVE Batches(_)
Batches(n) ==
    IF n = 0 THEN { << >> }
    ELSE LET shorter == Batches(n - 1)
         IN  shorter \cup { Append(b, r) : b \in { s \in shorter : Len(s) = n - 1 }, r \in Records }

ShipperInvoke ==
    /\ ship_out = NoInvocation
    /\ ship_out' = shipper_handler(ship_in.records, ship_in.api)
    /\ UNCHANGED << ship_in, forwarderVars, diagnoseVars, installVars, step,
                    testVars, uninstallVars >>

InitShipper ==
    /\ InstallerFresh
    /\ TesterOff
    /\ UninstallerOff
    /\ ForwarderOff
    /\ DiagnoseOff
    /\ ship_in \in [ status : { "event" }, records : Batches(MaxRecords), api : ApiAnswers ]
    /\ ship_out = NoInvocation

NextShipper == ShipperInvoke

SpecShipper == InitShipper /\ [][NextShipper]_vars

\* C38: when the call to the Clusterra API raises, the shipper raises and
\* does not return 200; it returns 200 only when there were no records, no
\* parsable events, or the API call succeeded.
ShipperRetry ==
    ship_out # NoInvocation =>
        /\ (ship_out.calls = 1 /\ ship_in.api # "ok") => ship_out.status = "raised"
        /\ ship_out.status = "200" =>
               \/ ship_in.records = << >>
               \/ ParseRecords(ship_in.records) = << >>
               \/ ship_out.calls = 1 /\ ship_in.api = "ok"

\* the API timed out on a batch with a job event and the handler raised
ShipperRetryWitness ==
    /\ ship_out # NoInvocation
    /\ ship_in.api = "timeout"
    /\ ship_out.calls = 1
    /\ Len(ship_out.tables.jobs) = 1
    /\ ship_out.status = "raised"

\* C39: whenever the shipper returns 200, every SQS record of the batch is
\* represented by an update in the jobs, nodes or clusters table of the
\* payload.
NoSilentLoss ==
    (ship_out # NoInvocation /\ ship_out.status = "200") =>
        Len(ship_out.tables.jobs) + Len(ship_out.tables.nodes)
            + Len(ship_out.tables.clusters) = Len(ship_in.records)


(***************************************************************************)
(* diagnose_slurm.py, diagnose_startup.py: send_ssm_command                *)
(***************************************************************************)
\* for _ in range(30)
SsmPolls == 30

\* time.sleep(2)
SsmInterval == 2

\* the statuses get_command_invocation reports, or its exception
InvocationStatuses ==
    { "Pending", "InProgress", "Success", "Failed", "Cancelled", "TimedOut", "exception" }

SsmReturn(ok, text, last) ==
    [ status |-> "returned", ok |-> ok, text |-> text, last |-> last ]

\* ssm = session.client("ssm"), before the try
SsmClient(answer) ==
    /\ ssm_pc = "client"
    /\ IF answer = "ok"
       THEN /\ ssm_pc' = "send"
            /\ ssm_out' = ssm_out
       ELSE /\ ssm_pc' = "done"
            /\ ssm_out' = [ status |-> "raised", ok |-> FALSE, text |-> answer,
                            last |-> "client" ]
    /\ UNCHANGED << ssm_polls, ssm_slept, forwarderVars, shipperVars, installVars,
                    step, testVars, uninstallVars >>

\* ssm.send_command(...) and the first sleep
SsmSend(answer) ==
    /\ ssm_pc = "send"
    /\ IF answer = "ok"
       THEN /\ ssm_pc' = "poll"
            /\ ssm_slept' = ssm_slept + SsmInterval
            /\ ssm_out' = ssm_out
       ELSE /\ ssm_pc' = "done"
            /\ ssm_slept' = ssm_slept
            /\ ssm_out' = SsmReturn(FALSE, answer, "send_command")
    /\ UNCHANGED << ssm_polls, forwarderVars, shipperVars, installVars,
                    step, testVars, uninstallVars >>

\* one pass of the polling loop; after the last pass the function returns
\* (False, "Timeout")
SsmPoll(inv_status, stderr) ==
    /\ ssm_pc = "poll"
    /\ ssm_polls < SsmPolls
    /\ ssm_polls' = ssm_polls + 1
    /\ CASE inv_status = "Success" ->
                /\ ssm_pc' = "done"
                /\ ssm_slept' = ssm_slept
                /\ ssm_out' = SsmReturn(TRUE, "StandardOutputContent", inv_status)
         [] inv_status \in { "Failed", "Cancelled", "TimedOut" } ->
                /\ ssm_pc' = "done"
                /\ ssm_slept' = ssm_slept
                /\ ssm_out' = SsmReturn(FALSE,
                                        IF Truthy(stderr) THEN stderr ELSE "Command failed",
                                        inv_status)
         [] inv_status = "exception" ->
                /\ ssm_pc' = "done"
                /\ ssm_slept' = ssm_slept
                /\ ssm_out' = SsmReturn(FALSE, "exception", inv_status)
         [] OTHER ->
                /\ ssm_slept' = ssm_slept + SsmInterval
                /\ IF ssm_polls' = SsmPolls
                   THEN /\ ssm_pc' = "done"
                        /\ ssm_out' = SsmReturn(FALSE, "Timeout", inv_status)
                   ELSE /\ ssm_pc' = "poll"
                        /\ ssm_out' = ssm_out
    /\ UNCHANGED << forwarderVars, shipperVars, installVars,
                    step, testVars, uninstallVars >>

InitDiagnose ==
    /\ InstallerFresh
    /\ TesterOff
    /\ UninstallerOff
    /\ ForwarderOff
    /\ ShipperOff
    /\ ssm_pc = "client"
    /\ ssm_polls = 0
    /\ ssm_slept = 0
    /\ ssm_out = NoInvocation

NextDiagnose ==
    \/ \E answer \in { "ok", "exception" } : SsmClient(answer)
    \/ \E answer \in { "ok", "exception" } : SsmSend(answer)
    \/ \E inv_status \in InvocationStatuses, stderr \in { "", "stderr text" } :
           SsmPoll(inv_status, stderr)

SpecDiagnose == InitDiagnose /\ [][NextDiagnose]_vars

\* C40: send_ssm_command returns (True, output) on Success, (False, error
\* text) on Failed, Cancelled or TimedOut, (False, "Timeout") after exactly
\* 30 polls spaced 2 seconds apart when no status was terminal, (False,
\* message) on any exception; it never raises and never polls more than 30
\* times.
DiagnoseBounded ==
    /\ ssm_polls <= SsmPolls
    /\ ssm_pc = "poll" => ssm_slept = SsmInterval * (ssm_polls + 1)
    /\ ssm_pc = "done" =>
           /\ ssm_out.status = "returned"
           /\ ssm_out.ok <=> ssm_out.last = "Success"
           /\ ssm_out.last \in { "Failed", "Cancelled", "TimedOut" } =>
                  ssm_out.text \in { "stderr text", "Command failed" }
           /\ ssm_out.last \in { "Pending", "InProgress" } =>
                  /\ ssm_out.text = "Timeout"
                  /\ ssm_polls = SsmPolls
                  /\ ssm_slept = SsmInterval * (SsmPolls + 1)

\* the part of C40 that holds: whenever the function returns, it returns as
\* the claim says, after at most 30 polls
DiagnoseReturns ==
    /\ ssm_polls <= SsmPolls
    /\ ssm_pc = "poll" => ssm_slept = SsmInterval * (ssm_polls + 1)
    /\ (ssm_pc = "done" /\ ssm_out.status = "returned") =>
           /\ ssm_out.ok <=> ssm_out.last = "Success"
           /\ ssm_out.last \in { "Failed", "Cancelled", "TimedOut" } =>
                  ssm_out.text \in { "stderr text", "Command failed" }
           /\ ssm_out.last \in { "Pending", "InProgress" } =>
                  /\ ssm_out.text = "Timeout"
                  /\ ssm_polls = SsmPolls
                  /\ ssm_slept = SsmInterval * (SsmPolls + 1)

============================================================================
